---- MODULE Spec2Model ----
(***************************************************************************)
(* HebloMCP: the OAuth authorization-code proxy (session store and the     *)
(* /authorize, /callback, /token endpoints), the inbound bearer-token      *)
(* middleware with its token validator, and the two outbound-request       *)
(* authenticators.                                                         *)
(***************************************************************************)
EXTENDS Integers, Sequences, FiniteSets, TLC

VARIABLES
    \* ---- OAuth proxy (oauth_session.py, oauth_endpoints.py)
    states,         \* OAuthSessionStore._states : state key -> OAuthState
    codes,          \* OAuthSessionStore._codes  : proxy code -> ProxyCode
    nextCode,       \* source of secrets.token_urlsafe: index of the next fresh code
    config_class,   \* the class of the config object given to OAuthEndpoints
    client_secret,  \* OAuthEndpoints.client_secret ("" when not configured)
    now,            \* time.time()
    redeemed,       \* history: proxy codes for which /token has answered 200
    consumed,       \* history: state keys taken by /callback and not stored again since
    \* ---- inbound middleware and validator (sse_auth.py, token_validator.py)
    jwks_cache,     \* TokenValidator._jwks_cache (cached = FALSE when None)
    jwks_cache_time,\* TokenValidator._jwks_cache_time
    jwks_fetched,   \* history: time and key set of the last fetch that succeeded
    mw,             \* the last SSEAuthMiddleware.__call__: its scope and what it did
    \* ---- outbound authenticators (auth.py, sse_bearer_auth.py)
    flow,           \* one httpx auth_flow generator and the client driving it
    \* ---- device-code authenticator and its token cache file (auth.py)
    cache_file,     \* the file at HebloAuth.cache_path: whether it exists, and its text
    heblo_auth,     \* the HebloAuth object: its MSAL cache and has_state_changed
    call,           \* the last call on HebloAuth and what it did
    \* ---- threads inside OAuthSessionStore (oauth_session.py, oauth_endpoints.py)
    lock,           \* OAuthSessionStore._lock: the thread holding it, 0 when free
    threads,        \* per thread: the request it serves, its position, its locals
    obtained,       \* history: per key, how many lookups found the entry stored last
    \* ---- one authorization attempt through the proxy (oauth_endpoints.py)
    authorized,     \* history: the state keys and challenges accepted by /authorize
    origin,         \* history: per proxy code, the OAuthState its /callback consumed
    \* ---- inbound requests in flight and the shared outbound authenticator
    inbound,        \* per request in flight: its scope, its position, what it sent
    sse_bearer_auth,\* the attributes of the one SSEBearerAuth instance
    \* ---- the middleware stack of the remote server (server.py)
    stack           \* the last request through the stack and who answered it

oauthVars == <<states, codes, nextCode, config_class, client_secret, redeemed, consumed>>
mwVars == <<jwks_cache, jwks_cache_time, jwks_fetched, mw>>
flowVars == <<flow>>
authVars == <<cache_file, heblo_auth, call>>
storeVars == <<lock, threads, obtained>>
attemptVars == <<authorized, origin>>
shareVars == <<inbound, sse_bearer_auth>>
stackVars == <<stack>>
lateVars == <<authorized, origin, inbound, sse_bearer_auth, stack>>
vars == <<states, codes, nextCode, config_class, client_secret, now, redeemed, consumed,
          jwks_cache, jwks_cache_time, jwks_fetched, mw, flow,
          cache_file, heblo_auth, call, lock, threads, obtained,
          authorized, origin, inbound, sse_bearer_auth, stack>>

(***************************************************************************)
(* Bounds and program constants                                            *)
(***************************************************************************)
MaxCodes == 1
MaxTime == 601
state_ttl == 600
code_ttl == 300
expires_in == 3600

ConfigClientId == "X"
ApiScope == "api://heblo/access_as_user"
ProxyCallbackUrl == "proxy/callback"
AzureAuthorizeUrl == "azure/authorize"

\* Values a client may send; "" and <<>> stand for a missing parameter.
ClientIds == {"", "X", "other"}
RedirectUris == {"", "https://c/cb", "https://d/cb"}
StateKeys == {"", "s1", "s2"}
Methods == {"", "S256", "plain"}
Verifiers == {"", "v1", "v2"}
\* A challenge is the sequence of its parts, so that trailing padding is visible.
Challenges == {<<>>, <<"d1">>, <<"d2">>}
ProviderCodes == {"", "provider123"}
ProviderErrors == {"", "access_denied"}
AccessTokens == {"at1", "at2"}
GrantTypes == {"authorization_code", "refresh_token"}
\* 0 stands for a missing code; MaxCodes + 1 is a code the store never issues.
ProxyCodes == 0 .. (MaxCodes + 1)

(***************************************************************************)
(* PKCE: base64.urlsafe_b64encode(sha256(verifier)).decode().rstrip("=")   *)
(***************************************************************************)
sha256(v) == CASE v = "v1" -> "d1" [] v = "v2" -> "d2" [] OTHER -> "d0"

\* A 32-byte digest encodes to 43 characters and one "=" of padding.
urlsafe_b64encode(d) == <<d, "=">>

RECURSIVE rstrip_eq(_)
rstrip_eq(s) ==
    IF s # <<>> /\ s[Len(s)] = "=" THEN rstrip_eq(SubSeq(s, 1, Len(s) - 1)) ELSE s

\* The "plain" PKCE method: the challenge is the verifier itself.
pkce_plain(v) == <<v>>

pkce_challenge(v) == rstrip_eq(urlsafe_b64encode(sha256(v)))

(***************************************************************************)
(* OAuthSessionStore                                                       *)
(***************************************************************************)
\* A sweep that never removes a state.
_cleanup_expired_states_never(st, t) == st

_cleanup_expired_states(st, t) ==
    [k \in {x \in DOMAIN st : ~(t - st[x].created_at > state_ttl)} |-> st[k]]

\* A sweep that never removes a code.
_cleanup_expired_codes_never(cs, t) == cs

_cleanup_expired_codes(cs, t) ==
    [k \in {x \in DOMAIN cs : ~(t - cs[x].created_at > code_ttl)} |-> cs[k]]

\* A store_state that keeps the entry a live state key already has, as
\* dict.setdefault would.
store_state_setdefault(st, t, state, code_challenge, code_challenge_method, redirect_uri, scope) ==
    LET c == _cleanup_expired_states(st, t)
        r == [code_challenge |-> code_challenge,
              code_challenge_method |-> code_challenge_method,
              redirect_uri |-> redirect_uri,
              scope |-> scope,
              created_at |-> t]
    IN  [k \in DOMAIN c \cup {state} |-> IF k \in DOMAIN c THEN c[k] ELSE r]

store_state(st, t, state, code_challenge, code_challenge_method, redirect_uri, scope) ==
    LET c == _cleanup_expired_states(st, t)
        r == [code_challenge |-> code_challenge,
              code_challenge_method |-> code_challenge_method,
              redirect_uri |-> redirect_uri,
              scope |-> scope,
              created_at |-> t]
    IN  [k \in DOMAIN c \cup {state} |-> IF k = state THEN r ELSE c[k]]

\* A lookup that leaves the entry in the map, as dict.get would.
pop_keep(m, k) == m

pop(m, k) == [x \in DOMAIN m \ {k} |-> m[x]]

\* A get_state that reads the entry and leaves it stored.
get_state_peek(st, t, state) ==
    LET c == _cleanup_expired_states(st, t)
    IN  [found |-> state \in DOMAIN c, states |-> c, entry |-> c]

\* get_state: the states left, and the entry found (found = FALSE for None).
get_state(st, t, state) ==
    LET c == _cleanup_expired_states(st, t)
    IN  [found |-> state \in DOMAIN c, states |-> pop(c, state), entry |-> c]

\* A create_proxy_code that records the token and forgets the challenge.
create_proxy_code_unbound(cs, t, proxy_code, access_token, code_challenge) ==
    LET c == _cleanup_expired_codes(cs, t)
        r == [access_token |-> access_token,
              code_challenge |-> <<>>,
              created_at |-> t]
    IN  [k \in DOMAIN c \cup {proxy_code} |-> IF k = proxy_code THEN r ELSE c[k]]

create_proxy_code(cs, t, proxy_code, access_token, code_challenge) ==
    LET c == _cleanup_expired_codes(cs, t)
        r == [access_token |-> access_token,
              code_challenge |-> code_challenge,
              created_at |-> t]
    IN  [k \in DOMAIN c \cup {proxy_code} |-> IF k = proxy_code THEN r ELSE c[k]]

\* exchange_code: the codes left, and the token returned ("" for None).
exchange_code(cs, t, code, code_verifier) ==
    LET c == _cleanup_expired_codes(cs, t)
        left == pop(c, code)
    IN  IF code \notin DOMAIN c
        THEN [codes |-> left, token |-> ""]
        ELSE IF pkce_challenge(code_verifier) # c[code].code_challenge
             THEN [codes |-> left, token |-> ""]
             ELSE [codes |-> left, token |-> c[code].access_token]

(***************************************************************************)
(* Requests and responses of the OAuth endpoints                           *)
(***************************************************************************)
RequestedScopes == {"", "custom"}
ErrorDescriptions == {"", "user cancelled"}
\* What the identity provider's token endpoint answers to the proxy.
\* An http_error carries the provider's error_description (or response.text).
IdpErrorTexts == {"AADSTS70008: The provided authorization code has expired."}

IdpOutcomes ==
    [kind : {"ok"}, access_token : AccessTokens, text : {""}]
        \cup [kind : {"http_error"}, access_token : {""}, text : IdpErrorTexts]
        \cup [kind : {"network_error"}, access_token : {""}, text : {""}]

NoLocation ==
    [url |-> "", client_id |-> "", redirect_uri |-> "", scope |-> "", state |-> "",
     code |-> 0]

NoResponse ==
    [status |-> 0, error |-> "", error_description |-> "", detail |-> <<>>,
     location |-> NoLocation, access_token |-> "", token_type |-> "", expires_in |-> 0]

JSONError(status, error, description) ==
    [NoResponse EXCEPT !.status = status, !.error = error,
                       !.error_description = description]

RedirectResponse(location) == [NoResponse EXCEPT !.status = 302, !.location = location]

\* Python truthiness of a query or form parameter: a string, a challenge, a proxy code.
Present(x) == x # ""

PresentChallenge(x) == x # <<>>

PresentCode(x) == x # 0

\* An authorize that stores the state before it compares the client_id.
authorize_store_first(st, t, r) ==
    IF ~(Present(r.client_id) /\ Present(r.redirect_uri) /\ Present(r.state)
         /\ PresentChallenge(r.code_challenge) /\ Present(r.code_challenge_method))
    THEN [resp |-> JSONError(400, "invalid_request", "Missing required OAuth parameters"),
          states |-> st, stored |-> FALSE]
    ELSE IF r.client_id # ConfigClientId
    THEN [resp |-> JSONError(400, "invalid_client", "Unknown client_id. Expected: X"),
          states |-> store_state(st, t, r.state, r.code_challenge,
                                 r.code_challenge_method, r.redirect_uri,
                                 IF r.scope = "" THEN "claudeai" ELSE r.scope),
          stored |-> FALSE]
    ELSE [resp |-> RedirectResponse(
                       [NoLocation EXCEPT !.url = AzureAuthorizeUrl,
                                          !.client_id = ConfigClientId,
                                          !.redirect_uri = ProxyCallbackUrl,
                                          !.scope = ApiScope,
                                          !.state = r.state]),
          states |-> store_state(st, t, r.state, r.code_challenge,
                                 r.code_challenge_method, r.redirect_uri,
                                 IF r.scope = "" THEN "claudeai" ELSE r.scope),
          stored |-> TRUE]

\* An authorize that hands the client's redirect_uri and scope on to the provider.
authorize_client_values(st, t, r) ==
    IF ~(Present(r.client_id) /\ Present(r.redirect_uri) /\ Present(r.state)
         /\ PresentChallenge(r.code_challenge) /\ Present(r.code_challenge_method))
    THEN [resp |-> JSONError(400, "invalid_request", "Missing required OAuth parameters"),
          states |-> st, stored |-> FALSE]
    ELSE IF r.client_id # ConfigClientId
    THEN [resp |-> JSONError(400, "invalid_client", "Unknown client_id. Expected: X"),
          states |-> st, stored |-> FALSE]
    ELSE [resp |-> RedirectResponse(
                       [NoLocation EXCEPT !.url = AzureAuthorizeUrl,
                                          !.client_id = ConfigClientId,
                                          !.redirect_uri = r.redirect_uri,
                                          !.scope = IF r.scope = "" THEN "claudeai"
                                                    ELSE r.scope,
                                          !.state = r.state]),
          states |-> store_state(st, t, r.state, r.code_challenge,
                                 r.code_challenge_method, r.redirect_uri,
                                 IF r.scope = "" THEN "claudeai" ELSE r.scope),
          stored |-> TRUE]

(***************************************************************************)
(* OAuthEndpoints.authorize: the response, and the states it leaves        *)
(***************************************************************************)
authorize(st, t, r) ==
    IF ~(Present(r.client_id) /\ Present(r.redirect_uri) /\ Present(r.state)
         /\ PresentChallenge(r.code_challenge) /\ Present(r.code_challenge_method))
    THEN [resp |-> JSONError(400, "invalid_request", "Missing required OAuth parameters"),
          states |-> st, stored |-> FALSE]
    ELSE IF r.client_id # ConfigClientId
    THEN [resp |-> JSONError(400, "invalid_client", "Unknown client_id. Expected: X"),
          states |-> st, stored |-> FALSE]
    ELSE [resp |-> RedirectResponse(
                       [NoLocation EXCEPT !.url = AzureAuthorizeUrl,
                                          !.client_id = ConfigClientId,
                                          !.redirect_uri = ProxyCallbackUrl,
                                          !.scope = ApiScope,
                                          !.state = r.state]),
          states |-> store_state(st, t, r.state, r.code_challenge,
                                 r.code_challenge_method, r.redirect_uri,
                                 IF r.scope = "" THEN "claudeai" ELSE r.scope),
          stored |-> TRUE]

\* An exchange that goes to the provider without looking at the client secret.
_exchange_code_for_token_unchecked(secret, outcome) ==
    IF outcome.kind # "ok" THEN "" ELSE outcome.access_token

\* An exchange whose exception message quotes the form it posted to the provider.
str_exception_with_form(secret, outcome) ==
    IF ~Present(secret)
    THEN <<"Client secret not configured. Set HEBLO_CLIENT_SECRET environment variable.">>
    ELSE <<"Azure AD token exchange failed: ", "client_secret=", secret>>

(***************************************************************************)
(* str(e) of what _exchange_code_for_token raises, in the pieces the       *)
(* f-strings join: the fixed text, then the provider's text                *)
(***************************************************************************)
str_exception(secret, outcome) ==
    IF ~Present(secret)
    THEN <<"Client secret not configured. Set HEBLO_CLIENT_SECRET environment variable.">>
    ELSE IF outcome.kind = "http_error"
    THEN <<"Azure AD token exchange failed: ", outcome.text>>
    ELSE <<"ConnectError">>

(***************************************************************************)
(* OAuthEndpoints._exchange_code_for_token: "" when it raises              *)
(***************************************************************************)
_exchange_code_for_token(secret, outcome) ==
    IF ~Present(secret) THEN ""
    ELSE IF outcome.kind # "ok" THEN ""
    ELSE outcome.access_token

\* A callback that goes on to the provider and mints a code when the state it is
\* given is not in the store.
callback_any_state(st, cs, t, secret, fresh, r, outcome) ==
    LET got == get_state(st, t, r.state)
        access_token == _exchange_code_for_token(secret, outcome)
        quiet == [resp |-> NoResponse, states |-> st, codes |-> cs, took |-> FALSE,
                  idp |-> FALSE, minted |-> FALSE]
    IN
    IF Present(r.error)
    THEN [quiet EXCEPT !.resp = JSONError(400, r.error,
                                  IF r.error_description = "" THEN "Unknown error"
                                  ELSE r.error_description)]
    ELSE IF ~Present(r.code) \/ ~Present(r.state)
    THEN [quiet EXCEPT !.resp = JSONError(400, "invalid_request", "Missing code or state")]
    ELSE IF access_token = ""
    THEN [quiet EXCEPT !.resp = JSONError(500, "server_error", "Token exchange failed"),
                       !.states = got.states, !.took = got.found, !.idp = Present(secret)]
    ELSE [resp |-> RedirectResponse(
                       [NoLocation EXCEPT !.url = IF got.found
                                                  THEN got.entry[r.state].redirect_uri
                                                  ELSE "https://c/cb",
                                          !.code = fresh,
                                          !.state = r.state]),
          states |-> got.states,
          codes |-> create_proxy_code(cs, t, fresh, access_token,
                                      IF got.found THEN got.entry[r.state].code_challenge
                                      ELSE <<"d1">>),
          took |-> got.found, idp |-> TRUE, minted |-> TRUE]

\* A callback that looks the state up before it looks at the error parameter.
callback_state_first(st, cs, t, secret, fresh, r, outcome) ==
    LET got == get_state(st, t, r.state)
        access_token == _exchange_code_for_token(secret, outcome)
        quiet == [resp |-> NoResponse, states |-> got.states, codes |-> cs,
                  took |-> got.found, idp |-> FALSE, minted |-> FALSE]
    IN
    IF Present(r.error)
    THEN [quiet EXCEPT !.resp = JSONError(400, r.error,
                                  IF r.error_description = "" THEN "Unknown error"
                                  ELSE r.error_description)]
    ELSE IF ~Present(r.code) \/ ~Present(r.state)
    THEN [quiet EXCEPT !.resp = JSONError(400, "invalid_request", "Missing code or state")]
    ELSE IF ~got.found
    THEN [quiet EXCEPT !.resp = JSONError(400, "invalid_request",
                                          "Invalid or expired state parameter")]
    ELSE IF access_token = ""
    THEN [quiet EXCEPT !.resp = JSONError(500, "server_error", "Token exchange failed"),
                       !.idp = Present(secret)]
    ELSE [resp |-> RedirectResponse(
                       [NoLocation EXCEPT !.url = got.entry[r.state].redirect_uri,
                                          !.code = fresh,
                                          !.state = r.state]),
          states |-> got.states,
          codes |-> create_proxy_code(cs, t, fresh, access_token,
                                      got.entry[r.state].code_challenge),
          took |-> TRUE, idp |-> TRUE, minted |-> TRUE]

(***************************************************************************)
(* OAuthEndpoints.callback: the response, the maps it leaves, whether it   *)
(* took a state, called the identity provider, minted a code               *)
(***************************************************************************)
callback(st, cs, t, secret, fresh, r, outcome) ==
    LET got == get_state(st, t, r.state)
        access_token == _exchange_code_for_token(secret, outcome)
        quiet == [resp |-> NoResponse, states |-> st, codes |-> cs, took |-> FALSE,
                  idp |-> FALSE, minted |-> FALSE]
    IN
    IF Present(r.error)
    THEN [quiet EXCEPT !.resp = JSONError(400, r.error,
                                  IF r.error_description = "" THEN "Unknown error"
                                  ELSE r.error_description)]
    ELSE IF ~Present(r.code) \/ ~Present(r.state)
    THEN [quiet EXCEPT !.resp = JSONError(400, "invalid_request", "Missing code or state")]
    ELSE IF ~got.found
    THEN [quiet EXCEPT !.resp = JSONError(400, "invalid_request",
                                          "Invalid or expired state parameter"),
                       !.states = got.states]
    ELSE IF access_token = ""
    THEN [quiet EXCEPT !.resp = [JSONError(500, "server_error", "Token exchange failed")
                                    EXCEPT !.detail = str_exception(secret, outcome)],
                       !.states = got.states, !.took = TRUE, !.idp = Present(secret)]
    ELSE [resp |-> RedirectResponse(
                       [NoLocation EXCEPT !.url = got.entry[r.state].redirect_uri,
                                          !.code = fresh,
                                          !.state = r.state]),
          states |-> got.states,
          codes |-> create_proxy_code(cs, t, fresh, access_token,
                                      got.entry[r.state].code_challenge),
          took |-> TRUE, idp |-> TRUE, minted |-> TRUE]

\* A token endpoint that exchanges the code before it compares the client_id.
token_exchange_first(cs, t, r) ==
    LET ex == exchange_code(cs, t, r.code, r.code_verifier)
    IN
    IF r.grant_type # "authorization_code"
    THEN [resp |-> JSONError(400, "unsupported_grant_type",
                             "Only authorization_code grant type is supported"),
          codes |-> cs]
    ELSE IF ~(PresentCode(r.code) /\ Present(r.code_verifier) /\ Present(r.client_id))
    THEN [resp |-> JSONError(400, "invalid_request", "Missing required parameters"),
          codes |-> cs]
    ELSE IF r.client_id # ConfigClientId
    THEN [resp |-> JSONError(400, "invalid_client", "Invalid client_id"),
          codes |-> ex.codes]
    ELSE IF ~Present(ex.token)
    THEN [resp |-> JSONError(400, "invalid_grant",
                             "Invalid authorization code or code verifier"),
          codes |-> ex.codes]
    ELSE [resp |-> [NoResponse EXCEPT !.status = 200, !.access_token = ex.token,
                                      !.token_type = "Bearer",
                                      !.expires_in = expires_in],
          codes |-> ex.codes]

\* A token endpoint that tells an unknown code from a failed PKCE verification.
token_oracle(cs, t, r) ==
    LET ex == exchange_code(cs, t, r.code, r.code_verifier)
    IN
    IF r.grant_type # "authorization_code"
    THEN [resp |-> JSONError(400, "unsupported_grant_type",
                             "Only authorization_code grant type is supported"),
          codes |-> cs]
    ELSE IF ~(PresentCode(r.code) /\ Present(r.code_verifier) /\ Present(r.client_id))
    THEN [resp |-> JSONError(400, "invalid_request", "Missing required parameters"),
          codes |-> cs]
    ELSE IF r.client_id # ConfigClientId
    THEN [resp |-> JSONError(400, "invalid_client", "Invalid client_id"),
          codes |-> cs]
    ELSE IF ~Present(ex.token)
    THEN [resp |-> JSONError(400, "invalid_grant",
                             IF r.code \in DOMAIN _cleanup_expired_codes(cs, t)
                             THEN "PKCE verification failed"
                             ELSE "Invalid authorization code"),
          codes |-> ex.codes]
    ELSE [resp |-> [NoResponse EXCEPT !.status = 200, !.access_token = ex.token,
                                      !.token_type = "Bearer",
                                      !.expires_in = expires_in],
          codes |-> ex.codes]

(***************************************************************************)
(* OAuthEndpoints.token: the response, and the codes it leaves             *)
(***************************************************************************)
token(cs, t, r) ==
    LET ex == exchange_code(cs, t, r.code, r.code_verifier)
    IN
    IF r.grant_type # "authorization_code"
    THEN [resp |-> JSONError(400, "unsupported_grant_type",
                             "Only authorization_code grant type is supported"),
          codes |-> cs]
    ELSE IF ~(PresentCode(r.code) /\ Present(r.code_verifier) /\ Present(r.client_id))
    THEN [resp |-> JSONError(400, "invalid_request", "Missing required parameters"),
          codes |-> cs]
    ELSE IF r.client_id # ConfigClientId
    THEN [resp |-> JSONError(400, "invalid_client", "Invalid client_id"),
          codes |-> cs]
    ELSE IF ~Present(ex.token)
    THEN [resp |-> JSONError(400, "invalid_grant",
                             "Invalid authorization code or code verifier"),
          codes |-> ex.codes]
    ELSE [resp |-> [NoResponse EXCEPT !.status = 200, !.access_token = ex.token,
                                      !.token_type = "Bearer",
                                      !.expires_in = expires_in],
          codes |-> ex.codes]

(***************************************************************************)
(* The requests a client sends: the well-formed ones, and a well-formed    *)
(* one with each parameter in turn missing or wrong                        *)
(***************************************************************************)
AuthorizeBase ==
    [client_id |-> ConfigClientId, redirect_uri |-> "https://c/cb", state |-> "s1",
     code_challenge |-> <<"d1">>, code_challenge_method |-> "S256", scope |-> ""]

AuthorizeRequests ==
    {[AuthorizeBase EXCEPT !.state = s, !.code_challenge = c] :
        s \in StateKeys, c \in Challenges}
    \cup {[AuthorizeBase EXCEPT !.client_id = x, !.state = s] :
            x \in ClientIds, s \in {"", "s1"}}
    \cup {[AuthorizeBase EXCEPT !.redirect_uri = x] : x \in RedirectUris}
    \cup {[AuthorizeBase EXCEPT !.code_challenge_method = x] : x \in Methods}
    \cup {[AuthorizeBase EXCEPT !.scope = x] : x \in RequestedScopes}

CallbackBase ==
    [code |-> "provider123", state |-> "s1", error |-> "", error_description |-> ""]

CallbackRequests ==
    {[CallbackBase EXCEPT !.state = s, !.code = c] :
        s \in StateKeys, c \in ProviderCodes}
    \cup {[CallbackBase EXCEPT !.error = e, !.error_description = d] :
            e \in ProviderErrors, d \in ErrorDescriptions}

TokenBase ==
    [grant_type |-> "authorization_code", code |-> 1, code_verifier |-> "v1",
     client_id |-> ConfigClientId]

TokenRequests ==
    {[TokenBase EXCEPT !.code = c, !.code_verifier = v] :
        c \in ProxyCodes, v \in Verifiers}
    \cup {[TokenBase EXCEPT !.grant_type = g, !.code = c] :
            g \in GrantTypes, c \in {0, 1}}
    \cup {[TokenBase EXCEPT !.client_id = x, !.code_verifier = v] :
            x \in ClientIds, v \in {"", "v1"}}
    \cup {[TokenBase EXCEPT !.grant_type = "refresh_token", !.client_id = x,
                            !.code_verifier = v] :
            x \in {"", "other"}, v \in {"", "v1"}}

(***************************************************************************)
(* The steps of the OAuth proxy: one request served, or time passing       *)
(***************************************************************************)
AuthorizeStep ==
    \E r \in AuthorizeRequests :
        \E out \in {authorize(states, now, r)} :
        /\ states' = out.states
        /\ consumed' = IF out.stored THEN consumed \ {r.state} ELSE consumed
        /\ UNCHANGED <<codes, nextCode, config_class, client_secret, redeemed, now,
                       mwVars, flowVars, authVars, storeVars, lateVars>>

CallbackStep ==
    \E r \in CallbackRequests, outcome \in IdpOutcomes :
        \E out \in {callback(states, codes, now, client_secret, nextCode, r, outcome)} :
        /\ out.minted => nextCode <= MaxCodes
        /\ states' = out.states
        /\ codes' = out.codes
        /\ nextCode' = IF out.minted THEN nextCode + 1 ELSE nextCode
        /\ consumed' = IF out.took THEN consumed \cup {r.state} ELSE consumed
        /\ UNCHANGED <<config_class, client_secret, redeemed, now, mwVars, flowVars, authVars, storeVars, lateVars>>

TokenStep ==
    \E r \in TokenRequests :
        \E out \in {token(codes, now, r)} :
        /\ codes' = out.codes
        /\ redeemed' = IF out.resp.status = 200 THEN redeemed \cup {r.code} ELSE redeemed
        /\ UNCHANGED <<states, nextCode, config_class, client_secret, consumed, now,
                       mwVars, flowVars, authVars, storeVars, lateVars>>

OAuthDeltas == {300, 301}

Tick(d) ==
    /\ now + d <= MaxTime
    /\ now' = now + d

TickOAuth ==
    /\ \E d \in OAuthDeltas : Tick(d)
    /\ UNCHANGED <<oauthVars, mwVars, flowVars, authVars, storeVars, lateVars>>

EmptyMap == [k \in {} |-> 0]

NextOAuth ==
    \/ AuthorizeStep
    \/ CallbackStep
    \/ TokenStep
    \/ TickOAuth

(***************************************************************************)
(* Bearer tokens: what jwt.get_unverified_header and jwt.decode read in    *)
(* each token a client may present                                         *)
(***************************************************************************)
jwks_cache_ttl == 3600
MaxJwksTime == 7200

TenantId == "tenant-1"
ExpectedIssuer == "https://login.microsoftonline.com/tenant-1/v2.0"

GoodJwt ==
    [malformed |-> FALSE, kid |-> "k1", signer |-> "k1", alg |-> "RS256",
     expired |-> FALSE, aud |-> ConfigClientId, iss |-> ExpectedIssuer,
     preferred_username |-> "u1@example.com", email |-> "", oid |-> "o1",
     tid |-> TenantId]

BearerTokens ==
    {"T1", "T2", "Tnokid", "Texp", "Taud", "Tiss", "Tsig", "Tbad", "Tk9"}

JwtOf(raw) ==
    CASE raw = "T1" -> GoodJwt
      [] raw = "T2" -> [GoodJwt EXCEPT !.kid = "k2", !.signer = "k2",
                                          !.preferred_username = "",
                                          !.email = "u2@example.com", !.oid = "o2"]
      [] raw = "Tnokid" -> [GoodJwt EXCEPT !.kid = ""]
      [] raw = "Texp" -> [GoodJwt EXCEPT !.expired = TRUE]
      [] raw = "Taud" -> [GoodJwt EXCEPT !.aud = "other-api"]
      [] raw = "Tiss" -> [GoodJwt EXCEPT !.iss = "https://evil.example/v2.0"]
      [] raw = "Tsig" -> [GoodJwt EXCEPT !.signer = "attacker"]
      [] raw = "Tk9" -> [GoodJwt EXCEPT !.kid = "k9", !.signer = "k9"]
      [] OTHER -> [GoodJwt EXCEPT !.malformed = TRUE]

\* What the JWKS endpoint answers: the key identifiers of the set, or a failure.
KeySets == {<<"k1", "k2">>, <<"k2">>, <<>>}
FetchOutcomes == [ok : {TRUE}, keys : KeySets] \cup [ok : {FALSE}, keys : {<<>>}]

NoJwks == [cached |-> FALSE, keys |-> <<>>]

NoUser == [email |-> "", tenant_id |-> "", object_id |-> "", token |-> ""]

(***************************************************************************)
(* UserContext.__repr__: the text as the sequence of its pieces.  repr of  *)
(* a str puts it in quotes.                                                *)
(***************************************************************************)
repr(str) == <<"'", str, "'">>

\* The repr a dataclass generates when the class defines none: every field.
UserContext__repr__dataclass(u) ==
    <<"UserContext(email=">> \o repr(u.email)
        \o <<", tenant_id=">> \o repr(u.tenant_id)
        \o <<", object_id=">> \o repr(u.object_id)
        \o <<", token=">> \o repr(u.token) \o <<")">>

UserContext__repr__(u) ==
    <<"UserContext(email=">> \o repr(u.email)
        \o <<", tenant_id=">> \o repr(u.tenant_id)
        \o <<", object_id=">> \o repr(u.object_id) \o <<")">>

\* A fetch that gives up when the request fails, cached key set or not.
_fetch_jwks_strict(cache, outcome) ==
    IF outcome.ok THEN [ok |-> TRUE, keys |-> outcome.keys]
    ELSE [ok |-> FALSE, keys |-> <<>>]

(***************************************************************************)
(* TokenValidator._fetch_jwks and _get_jwks: the key set (ok = FALSE when  *)
(* TokenValidationError is raised) and the cache left behind               *)
(***************************************************************************)
_fetch_jwks(cache, outcome) ==
    IF outcome.ok THEN [ok |-> TRUE, keys |-> outcome.keys]
    ELSE IF cache.cached THEN [ok |-> TRUE, keys |-> cache.keys]
    ELSE [ok |-> FALSE, keys |-> <<>>]

\* A _get_jwks that fetches the key set on every call.
_get_jwks_uncached(cache, cache_time, t, outcome) ==
    LET f == _fetch_jwks(cache, outcome) IN
    IF f.ok
    THEN [ok |-> TRUE, keys |-> f.keys,
          cache |-> [cached |-> TRUE, keys |-> f.keys], cache_time |-> t,
          fetched |-> TRUE]
    ELSE [ok |-> FALSE, keys |-> <<>>, cache |-> cache, cache_time |-> cache_time,
          fetched |-> TRUE]

\* A _get_jwks that stamps the cache only with a key set the endpoint delivered.
_get_jwks_no_restamp(cache, cache_time, t, outcome) ==
    IF cache.cached /\ (t - cache_time) < jwks_cache_ttl
    THEN [ok |-> TRUE, keys |-> cache.keys, cache |-> cache, cache_time |-> cache_time,
          fetched |-> FALSE]
    ELSE LET f == _fetch_jwks(cache, outcome) IN
         IF f.ok
         THEN [ok |-> TRUE, keys |-> f.keys,
               cache |-> [cached |-> TRUE, keys |-> f.keys],
               cache_time |-> IF outcome.ok THEN t ELSE cache_time,
               fetched |-> TRUE]
         ELSE [ok |-> FALSE, keys |-> <<>>, cache |-> cache, cache_time |-> cache_time,
               fetched |-> TRUE]

_get_jwks(cache, cache_time, t, outcome) ==
    IF cache.cached /\ (t - cache_time) < jwks_cache_ttl
    THEN [ok |-> TRUE, keys |-> cache.keys, cache |-> cache, cache_time |-> cache_time,
          fetched |-> FALSE]
    ELSE LET f == _fetch_jwks(cache, outcome) IN
         IF f.ok
         THEN [ok |-> TRUE, keys |-> f.keys,
               cache |-> [cached |-> TRUE, keys |-> f.keys], cache_time |-> t,
               fetched |-> TRUE]
         ELSE [ok |-> FALSE, keys |-> <<>>, cache |-> cache, cache_time |-> cache_time,
               fetched |-> TRUE]

\* A selection that takes the first key of the set whatever the header says.
SelectSigningKey_first(keys, kid) == IF keys = <<>> THEN "" ELSE keys[1]

\* The loop over jwks["keys"]: the first key the header's kid selects ("" for None).
SelectSigningKey(keys, kid) ==
    LET hits == {i \in 1 .. Len(keys) : kid = keys[i] \/ kid = ""}
    IN  IF hits = {} THEN ""
        ELSE keys[CHOOSE i \in hits : \A j \in hits : i <= j]

\* An error mapping that catches jwt.DecodeError before its subclass
\* jwt.InvalidSignatureError.
DecodeError_format_first(jwt, signing_key) ==
    IF jwt.alg # "RS256" THEN "Token validation failed: The specified alg value is not allowed"
    ELSE IF jwt.signer # signing_key
    THEN "Invalid token format. Expected JWT Bearer token."
    ELSE IF jwt.expired THEN "Token expired. Please refresh your authentication."
    ELSE IF jwt.iss # ExpectedIssuer
    THEN "Token not valid for this service. Invalid issuer."
    ELSE IF jwt.aud # ConfigClientId
    THEN "Token not valid for this service. Invalid audience."
    ELSE ""

\* A jwt.decode told not to verify the exp claim.
DecodeError_noexp(jwt, signing_key) ==
    IF jwt.alg # "RS256" THEN "Token validation failed: The specified alg value is not allowed"
    ELSE IF jwt.signer # signing_key THEN "Invalid token signature."
    ELSE IF jwt.iss # ExpectedIssuer
    THEN "Token not valid for this service. Invalid issuer."
    ELSE IF jwt.aud # ConfigClientId
    THEN "Token not valid for this service. Invalid audience."
    ELSE ""

\* jwt.decode with the selected key: "" when it returns the payload, else the message
\* of the TokenValidationError that validate_token raises for PyJWT's exception.
DecodeError(jwt, signing_key) ==
    IF jwt.alg # "RS256" THEN "Token validation failed: The specified alg value is not allowed"
    ELSE IF jwt.signer # signing_key THEN "Invalid token signature."
    ELSE IF jwt.expired THEN "Token expired. Please refresh your authentication."
    ELSE IF jwt.iss # ExpectedIssuer
    THEN "Token not valid for this service. Invalid issuer."
    ELSE IF jwt.aud # ConfigClientId
    THEN "Token not valid for this service. Invalid audience."
    ELSE ""

(***************************************************************************)
(* TokenValidator.validate_token: the UserContext (error = "") or the      *)
(* message of the TokenValidationError, and the cache left behind          *)
(***************************************************************************)
validate_token(raw, cache, cache_time, t, outcome) ==
    LET jwt == JwtOf(raw)
        got == _get_jwks(cache, cache_time, t, outcome)
        signing_key == SelectSigningKey(got.keys, jwt.kid)
        failed(msg) == [error |-> msg, user |-> NoUser, cache |-> got.cache,
                        cache_time |-> got.cache_time, fetched |-> got.fetched]
    IN
    IF jwt.malformed
    THEN [error |-> "Invalid token format. Expected JWT Bearer token.", user |-> NoUser,
          cache |-> cache, cache_time |-> cache_time, fetched |-> FALSE]
    ELSE IF ~got.ok
    THEN failed("Token validation failed: Unable to fetch JWKS")
    ELSE IF signing_key = ""
    THEN failed("Token validation failed: Unable to find matching signing key in JWKS")
    ELSE IF DecodeError(jwt, signing_key) # ""
    THEN failed(DecodeError(jwt, signing_key))
    ELSE [error |-> "",
          user |-> [email |-> IF jwt.preferred_username # "" THEN jwt.preferred_username
                              ELSE jwt.email,
                    tenant_id |-> jwt.tid,
                    object_id |-> jwt.oid,
                    token |-> raw],
          cache |-> got.cache, cache_time |-> got.cache_time, fetched |-> got.fetched]

(***************************************************************************)
(* Outbound requests and SSEBearerAuth.auth_flow up to its only yield      *)
(***************************************************************************)
NoAuthorization == [scheme |-> "", credentials |-> ""]

Bearer(credentials) == [scheme |-> "Bearer", credentials |-> credentials]

\* request.extensions.get("user_context"): nothing, a UserContext, or an object that
\* has no token attribute.
NoUserContext == [kind |-> "absent", token |-> ""]
UserContexts ==
    {NoUserContext, [kind |-> "object", token |-> ""]}
        \cup [kind : {"UserContext"}, token : {"T1", "T2"}]

\* An authenticator that sets the header from whatever the extensions hold.
SSEBearerAuth_request_always(request) ==
    [request EXCEPT !.authorization = Bearer(request.user_context.token)]

SSEBearerAuth_request(request) ==
    IF request.user_context.kind = "UserContext"
    THEN [request EXCEPT !.authorization = Bearer(request.user_context.token)]
    ELSE request

(***************************************************************************)
(* Inbound requests: the ASGI scope                                        *)
(***************************************************************************)
bypass_health == TRUE

ScopeTypes == {"http", "websocket", "lifespan"}
Paths == {"/", "/authorize", "/callback", "/token", "/mcp"}
\* A bypass list that leaves out the token endpoint.
oauth_paths_short == {"/authorize", "/callback"}

oauth_paths == {"/authorize", "/callback", "/token"}

Header(name, scheme, credentials) ==
    [name |-> name, scheme |-> scheme, credentials |-> credentials, utf8 |-> TRUE]

HeaderLists ==
    {<<>>}
    \cup {<<Header("authorization", "Bearer", t)>> : t \in BearerTokens \cup {""}}
    \cup {<<Header("Authorization", "Bearer", "T2")>>,
          <<Header("authorization", "Basic", "dXNlcg")>>,
          <<Header("authorization", "bearer", "T1")>>,
          <<Header("accept", "Bearer", "T1")>>,
          <<Header("authorization", "Basic", "dXNlcg"),
            Header("authorization", "Bearer", "T1")>>,
          <<[Header("authorization", "Bearer", "T1") EXCEPT !.utf8 = FALSE]>>}

\* Every header list on the one protected path; on the others, none, a bad and a good one.
AsgiScopes ==
    [type : {"http"}, path : {"/mcp"}, headers : HeaderLists]
        \cup [type : {"http"}, path : Paths,
              headers : {<<>>, <<Header("authorization", "Bearer", "Tbad")>>,
                         <<Header("authorization", "Bearer", "T1")>>}]
        \cup [type : ScopeTypes \ {"http"}, path : {"/", "/mcp"},
              headers : {<<>>, <<Header("authorization", "Bearer", "T1")>>}]

lower(name) == IF name = "Authorization" THEN "authorization" ELSE name

\* _extract_bearer_token: the token ("" for None), or raised when value.decode fails.
RECURSIVE _extract_bearer_token(_)
_extract_bearer_token(headers) ==
    IF headers = <<>> THEN [raised |-> FALSE, token |-> ""]
    ELSE LET h == Head(headers) IN
         IF lower(h.name) = "authorization"
         THEN IF ~h.utf8 THEN [raised |-> TRUE, token |-> ""]
              ELSE IF h.scheme = "Bearer" THEN [raised |-> FALSE, token |-> h.credentials]
              ELSE _extract_bearer_token(Tail(headers))
         ELSE _extract_bearer_token(Tail(headers))

(***************************************************************************)
(* SSEAuthMiddleware.__call__: whether the next app is called and with     *)
(* which scope["user"], the response the middleware itself sends, whether  *)
(* an exception leaves it, and the validator's cache afterwards            *)
(***************************************************************************)
PassThrough(cache, cache_time) ==
    [app_called |-> TRUE, user |-> NoUser, status |-> 0, error |-> "",
     raised |-> FALSE, validated |-> FALSE, cache |-> cache, cache_time |-> cache_time,
     fetched |-> FALSE]

_send_401(message, validated, cache, cache_time) ==
    [app_called |-> FALSE, user |-> NoUser, status |-> 401, error |-> message,
     raised |-> FALSE, validated |-> validated, cache |-> cache,
     cache_time |-> cache_time, fetched |-> FALSE]

\* A middleware that logs a failed validation and lets the request through.
SSEAuthMiddleware_lenient(scope, cache, cache_time, t, outcome) ==
    LET ext == _extract_bearer_token(scope.headers)
        v == validate_token(ext.token, cache, cache_time, t, outcome)
    IN
    IF scope.type # "http" THEN PassThrough(cache, cache_time)
    ELSE IF bypass_health /\ scope.path = "/" THEN PassThrough(cache, cache_time)
    ELSE IF scope.path \in oauth_paths THEN PassThrough(cache, cache_time)
    ELSE IF ext.raised
    THEN [PassThrough(cache, cache_time) EXCEPT !.app_called = FALSE, !.raised = TRUE]
    ELSE IF ext.token = ""
    THEN _send_401("Authentication required. Please provide Bearer token.", FALSE,
                   cache, cache_time)
    ELSE [app_called |-> TRUE, user |-> v.user, status |-> 0, error |-> "",
          raised |-> FALSE, validated |-> TRUE, cache |-> v.cache,
          cache_time |-> v.cache_time, fetched |-> v.fetched]

SSEAuthMiddleware(scope, cache, cache_time, t, outcome) ==
    LET ext == _extract_bearer_token(scope.headers)
        v == validate_token(ext.token, cache, cache_time, t, outcome)
    IN
    IF scope.type # "http" THEN PassThrough(cache, cache_time)
    ELSE IF bypass_health /\ scope.path = "/" THEN PassThrough(cache, cache_time)
    ELSE IF scope.path \in oauth_paths THEN PassThrough(cache, cache_time)
    ELSE IF ext.raised
    THEN [PassThrough(cache, cache_time) EXCEPT !.app_called = FALSE, !.raised = TRUE]
    ELSE IF ext.token = ""
    THEN _send_401("Authentication required. Please provide Bearer token.", FALSE,
                   cache, cache_time)
    ELSE IF v.error # ""
    THEN [_send_401(v.error, TRUE, v.cache, v.cache_time) EXCEPT !.fetched = v.fetched]
    ELSE [app_called |-> TRUE, user |-> v.user, status |-> 0, error |-> "",
          raised |-> FALSE, validated |-> TRUE, cache |-> v.cache,
          cache_time |-> v.cache_time, fetched |-> v.fetched]

(***************************************************************************)
(* The request the downstream handler sends to the upstream API while it   *)
(* serves an inbound request. FastMCP builds it; nothing in this program   *)
(* puts scope["user"] into its extensions (server.py builds the client     *)
(* with SSEBearerAuth and no request hook). FastMCP may copy the inbound   *)
(* headers to it or not.                                                   *)
(***************************************************************************)
NoOutbound == [issued |-> FALSE, authorization |-> NoAuthorization]

DownstreamRequest(scope, forwarded) ==
    LET ext == _extract_bearer_token(scope.headers) IN
    [authorization |-> IF forwarded /\ ~ext.raised /\ ext.token # ""
                       THEN Bearer(ext.token) ELSE NoAuthorization,
     user_context |-> NoUserContext]

Outbound(scope, issued, forwarded) ==
    IF ~issued THEN NoOutbound
    ELSE [issued |-> TRUE,
          authorization |->
              SSEBearerAuth_request(DownstreamRequest(scope, forwarded)).authorization]

MiddlewareStep ==
    \E scope \in AsgiScopes, outcome \in FetchOutcomes,
       sends \in {"nothing", "request", "request with inbound headers"} :
        \E out \in {SSEAuthMiddleware(scope, jwks_cache, jwks_cache_time, now, outcome)} :
            /\ jwks_cache' = out.cache
            /\ jwks_cache_time' = out.cache_time
            /\ jwks_fetched' = IF out.fetched /\ outcome.ok
                               THEN [at |-> now, keys |-> outcome.keys]
                               ELSE jwks_fetched
            /\ mw' = [scope |-> scope, app_called |-> out.app_called, user |-> out.user,
                      status |-> out.status, error |-> out.error,
                      raised |-> out.raised, validated |-> out.validated,
                      fetched |-> out.fetched, fetch_ok |-> out.fetched /\ outcome.ok,
                      outbound |-> Outbound(scope, out.app_called /\ sends # "nothing",
                                            sends = "request with inbound headers")]
            /\ UNCHANGED <<now, oauthVars, flowVars, authVars, storeVars, lateVars>>

JwksDeltas == {3599, 3600}

TickMw ==
    /\ \E d \in JwksDeltas : now + d <= MaxJwksTime /\ now' = now + d
    /\ UNCHANGED <<mwVars, oauthVars, flowVars, authVars, storeVars, lateVars>>

NoCall ==
    [scope |-> [type |-> "lifespan", path |-> "/", headers |-> <<>>],
     app_called |-> FALSE, user |-> NoUser, status |-> 0, error |-> "",
     raised |-> FALSE, validated |-> FALSE, fetched |-> FALSE, fetch_ok |-> FALSE,
     outbound |-> NoOutbound]

NextMw ==
    \/ MiddlewareStep
    \/ TickMw

(***************************************************************************)
(* The outbound authenticators as httpx drives them: the client takes the  *)
(* first request from auth_flow, sends it, hands the response back to the  *)
(* generator, and sends again whatever the generator yields next; when the *)
(* generator ends, the last response is the result.                        *)
(***************************************************************************)
Statuses == {200, 401, 500}
LocalTokens == {"L1", "L2"}
\* HebloAuth.get_token: an access token, or "" when it raises.
GetTokenOutcomes == LocalTokens \cup {""}

OutboundRequests == [authorization : {NoAuthorization, Bearer("old")},
                     user_context : UserContexts]

\* given: the request handed to auth_flow; request: the request as last sent;
\* attempts: requests sent; acquired: tokens obtained; responses: the statuses received;
\* result: the status of the response the client returns to its caller.
NoFlow ==
    [auth |-> "none", pc |-> "idle",
     given |-> [authorization |-> NoAuthorization, user_context |-> NoUserContext],
     request |-> [authorization |-> NoAuthorization, user_context |-> NoUserContext],
     attempts |-> 0, acquired |-> 0, responses |-> <<>>, result |-> 0]

\* MSALBearerAuth.auth_flow up to its first yield.
MSALBearerAuth_start(request, got) ==
    IF got = ""
    THEN [NoFlow EXCEPT !.auth = "msal", !.pc = "raised", !.given = request,
                        !.request = request]
    ELSE [NoFlow EXCEPT !.auth = "msal", !.pc = "yielded", !.given = request,
                        !.request = [request EXCEPT !.authorization = Bearer(got)],
                        !.attempts = 1, !.acquired = 1]

\* A retry that never gives up, as a loop on the status would.
MSALBearerAuth_resume_loop(f, status, got) ==
    IF status = 401
    THEN IF got = ""
         THEN [f EXCEPT !.pc = "raised", !.responses = Append(@, status)]
         ELSE [f EXCEPT !.pc = "yielded", !.responses = Append(@, status),
                        !.request = [f.request EXCEPT !.authorization = Bearer(got)],
                        !.attempts = @ + 1, !.acquired = @ + 1]
    ELSE [f EXCEPT !.pc = "done", !.responses = Append(@, status), !.result = status]

\* MSALBearerAuth.auth_flow resumed with the response to the request it yielded: after
\* the first yield it tests the status, after the second it ends.
MSALBearerAuth_resume(f, status, got) ==
    IF f.attempts = 1 /\ status = 401
    THEN IF got = ""
         THEN [f EXCEPT !.pc = "raised", !.responses = Append(@, status)]
         ELSE [f EXCEPT !.pc = "yielded", !.responses = Append(@, status),
                        !.request = [f.request EXCEPT !.authorization = Bearer(got)],
                        !.attempts = 2, !.acquired = 2]
    ELSE [f EXCEPT !.pc = "done", !.responses = Append(@, status), !.result = status]

\* SSEBearerAuth.auth_flow up to its only yield.
SSEBearerAuth_start(request) ==
    [NoFlow EXCEPT !.auth = "sse", !.pc = "yielded", !.given = request,
                   !.request = SSEBearerAuth_request(request), !.attempts = 1]

\* A remote-mode authenticator that retried on 401 the way the local one does.
SSEBearerAuth_resume_retry(f, status) ==
    IF f.attempts = 1 /\ status = 401
    THEN [f EXCEPT !.pc = "yielded", !.responses = Append(@, status),
                   !.request = SSEBearerAuth_request(f.request), !.attempts = 2]
    ELSE [f EXCEPT !.pc = "done", !.responses = Append(@, status), !.result = status]

\* SSEBearerAuth.auth_flow resumed after its only yield: the generator ends.
SSEBearerAuth_resume(f, status) ==
    [f EXCEPT !.pc = "done", !.responses = Append(@, status), !.result = status]

FlowStartMsal ==
    /\ flow.pc # "yielded"
    /\ \E request \in OutboundRequests, got \in GetTokenOutcomes :
          flow' = MSALBearerAuth_start(request, got)
    /\ UNCHANGED <<oauthVars, mwVars, now, authVars, storeVars, lateVars>>

FlowStartSse ==
    /\ flow.pc # "yielded"
    /\ \E request \in OutboundRequests :
          flow' = SSEBearerAuth_start(request)
    /\ UNCHANGED <<oauthVars, mwVars, now, authVars, storeVars, lateVars>>

FlowResponseMsal ==
    /\ flow.pc = "yielded"
    /\ flow.auth = "msal"
    /\ \E status \in Statuses, got \in GetTokenOutcomes :
          flow' = MSALBearerAuth_resume(flow, status, got)
    /\ UNCHANGED <<oauthVars, mwVars, now, authVars, storeVars, lateVars>>

FlowResponseSse ==
    /\ flow.pc = "yielded"
    /\ flow.auth = "sse"
    /\ \E status \in Statuses :
          flow' = SSEBearerAuth_resume(flow, status)
    /\ UNCHANGED <<oauthVars, mwVars, now, authVars, storeVars, lateVars>>

NextFlow ==
    \/ FlowStartMsal
    \/ FlowStartSse
    \/ FlowResponseMsal
    \/ FlowResponseSse

(***************************************************************************)
(* HebloAuth (auth.py): the device-code authenticator and its cache file.  *)
(* The MSAL token cache holds at most one account here, with or without an *)
(* access token for it.  Its serialized form is a JSON text, written as    *)
(* the sequence of its pieces; a file may also hold any other text.        *)
(***************************************************************************)
CachedAccount == "user@example.com"
IssuedTokens == {"A1", "A2"}

EmptyCache == [account |-> "", access_token |-> ""]
TokenCaches ==
    {EmptyCache} \cup [account : {CachedAccount}, access_token : IssuedTokens \cup {""}]

\* SerializableTokenCache.serialize: the JSON text of the cache.
serialize(cache) == <<"{", cache.account, cache.access_token, "}">>

IsJson(text) == Len(text) = 4 /\ text[1] = "{" /\ text[4] = "}"

\* SerializableTokenCache.deserialize: json.loads(state) if state else {}.
deserialize(text) ==
    IF text = <<>> THEN [raised |-> FALSE, cache |-> EmptyCache]
    ELSE IF IsJson(text)
    THEN [raised |-> FALSE, cache |-> [account |-> text[2], access_token |-> text[3]]]
    ELSE [raised |-> TRUE, cache |-> EmptyCache]

NoFile == [exists |-> FALSE, text |-> <<>>]
FileTexts == {<<>>, <<"not json">>} \cup {serialize(c) : c \in TokenCaches}
CacheFiles == {NoFile} \cup [exists : {TRUE}, text : FileTexts]

NotConstructed == [phase |-> "start", cache |-> EmptyCache, has_state_changed |-> FALSE]

\* HebloAuth.__init__: phase "failed" when the constructor raises.
HebloAuth__init__(file) ==
    IF file.exists
    THEN LET loaded == deserialize(file.text) IN
         IF loaded.raised
         THEN [phase |-> "failed", cache |-> EmptyCache, has_state_changed |-> FALSE]
         ELSE [phase |-> "ready", cache |-> loaded.cache, has_state_changed |-> FALSE]
    ELSE [phase |-> "ready", cache |-> EmptyCache, has_state_changed |-> FALSE]

\* A save that writes the file whether or not the cache has changed.
_save_cache_always(a, file) ==
    [auth |-> [a EXCEPT !.has_state_changed = FALSE],
     file |-> [exists |-> TRUE, text |-> serialize(a.cache)],
     wrote |-> TRUE]

\* HebloAuth._save_cache; serialize() resets has_state_changed.
_save_cache(a, file) ==
    IF a.has_state_changed
    THEN [auth |-> [a EXCEPT !.has_state_changed = FALSE],
          file |-> [exists |-> TRUE, text |-> serialize(a.cache)],
          wrote |-> TRUE]
    ELSE [auth |-> a, file |-> file, wrote |-> FALSE]

\* A key the provider's response does not have.
Missing == "(missing)"

\* initiate_device_flow: with a user code, or an error response without one.
DeviceFlows ==
    [user_code : {"ABCD"}, error_description : {Missing}]
        \cup [user_code : {Missing},
              error_description : {Missing, "AADSTS70011: invalid scope"}]

\* acquire_token_by_device_flow: the completed flow's result.
DeviceFlowResults ==
    [access_token : IssuedTokens, error : {Missing}, error_description : {Missing}]
        \cup [access_token : {Missing},
              error : {Missing, "authorization_declined"},
              error_description : {Missing, "AADSTS70016: user declined"}]

\* dict.get(key) formatted in an f-string: None prints as "None".
get_or_None(value) == IF value = Missing THEN "None" ELSE value

\* A login that waits for the flow without looking for a user code.
login_unchecked(a, file, device_flow, result) ==
    IF result.access_token = Missing
    THEN [raised |-> TRUE,
          message |-> <<"Authentication failed: ",
                        IF result.error_description # Missing THEN result.error_description
                        ELSE IF result.error # Missing THEN result.error
                        ELSE "Unknown error">>,
          waited |-> TRUE, returned |-> "", auth |-> a, file |-> file, wrote |-> FALSE]
    ELSE LET added == [a EXCEPT !.cache = [account |-> CachedAccount,
                                           access_token |-> result.access_token],
                                !.has_state_changed = TRUE]
             saved == _save_cache(added, file)
         IN  [raised |-> FALSE, message |-> <<>>, waited |-> TRUE,
              returned |-> result.access_token,
              auth |-> saved.auth, file |-> saved.file, wrote |-> saved.wrote]

\* HebloAuth.login
login(a, file, device_flow, result) ==
    IF device_flow.user_code = Missing
    THEN [raised |-> TRUE,
          message |-> <<"Failed to create device flow: ",
                        get_or_None(device_flow.error_description)>>,
          waited |-> FALSE, returned |-> "", auth |-> a, file |-> file, wrote |-> FALSE]
    ELSE IF result.access_token = Missing
    THEN [raised |-> TRUE,
          message |-> <<"Authentication failed: ",
                        IF result.error_description # Missing THEN result.error_description
                        ELSE IF result.error # Missing THEN result.error
                        ELSE "Unknown error">>,
          waited |-> TRUE, returned |-> "", auth |-> a, file |-> file, wrote |-> FALSE]
    ELSE LET added == [a EXCEPT !.cache = [account |-> CachedAccount,
                                           access_token |-> result.access_token],
                                !.has_state_changed = TRUE]
             saved == _save_cache(added, file)
         IN  [raised |-> FALSE, message |-> <<>>, waited |-> TRUE,
              returned |-> result.access_token,
              auth |-> saved.auth, file |-> saved.file, wrote |-> saved.wrote]

(***************************************************************************)
(* acquire_token_silent for the cached account: None, a dict without an    *)
(* access token, the cached access token, or a token obtained with the     *)
(* refresh token and added to the cache.  A call that finds the cached     *)
(* access token expired removes it, whatever it returns afterwards.        *)
(***************************************************************************)
SilentOutcomes(cache) ==
    {[result |-> "None", access_token |-> "", cache |-> cache, changed |-> FALSE],
     [result |-> "error", access_token |-> "", cache |-> cache, changed |-> FALSE]}
    \cup (IF cache.access_token = "" THEN {}
          ELSE {[result |-> "None", access_token |-> "",
                 cache |-> [cache EXCEPT !.access_token = ""], changed |-> TRUE],
                [result |-> "token", access_token |-> cache.access_token,
                 cache |-> cache, changed |-> FALSE]})
    \cup {[result |-> "token", access_token |-> t,
           cache |-> [cache EXCEPT !.access_token = t], changed |-> TRUE] :
             t \in IssuedTokens}

NoCachedToken ==
    <<"No cached authentication token found. Please run 'heblo-mcp login' to authenticate.">>

\* A get_token that saves the cache before it looks at the result.
get_token_save_first(a, file, silent) ==
    IF a.cache.account # ""
    THEN LET after == [a EXCEPT !.cache = silent.cache,
                                !.has_state_changed = a.has_state_changed \/ silent.changed]
             saved == _save_cache(after, file)
         IN  IF silent.result = "token"
             THEN [raised |-> FALSE, message |-> <<>>, returned |-> silent.access_token,
                   auth |-> saved.auth, file |-> saved.file, wrote |-> saved.wrote]
             ELSE [raised |-> TRUE, message |-> NoCachedToken, returned |-> "",
                   auth |-> saved.auth, file |-> saved.file, wrote |-> saved.wrote]
    ELSE [raised |-> TRUE, message |-> NoCachedToken, returned |-> "",
          auth |-> a, file |-> file, wrote |-> FALSE]

\* HebloAuth.get_token
get_token(a, file, silent) ==
    IF a.cache.account # ""
    THEN LET after == [a EXCEPT !.cache = silent.cache,
                                !.has_state_changed = a.has_state_changed \/ silent.changed]
             saved == _save_cache(after, file)
         IN  IF silent.result = "token"
             THEN [raised |-> FALSE, message |-> <<>>, returned |-> silent.access_token,
                   auth |-> saved.auth, file |-> saved.file, wrote |-> saved.wrote]
             ELSE [raised |-> TRUE, message |-> NoCachedToken, returned |-> "",
                   auth |-> after, file |-> file, wrote |-> FALSE]
    ELSE [raised |-> TRUE, message |-> NoCachedToken, returned |-> "",
          auth |-> a, file |-> file, wrote |-> FALSE]

NoAuthCall ==
    [op |-> "none", ok |-> FALSE, message |-> <<>>, returned |-> "", waited |-> FALSE,
     wrote |-> FALSE, changed |-> FALSE, before |-> "none"]

\* What the call before this one was, and whether it returned.
Before == IF call.op = "none" THEN "none"
          ELSE IF call.ok THEN <<call.op, "returned">> ELSE <<call.op, "raised">>

Construct ==
    /\ heblo_auth.phase = "start"
    /\ heblo_auth' = HebloAuth__init__(cache_file)
    /\ call' = [NoAuthCall EXCEPT !.op = "__init__", !.ok = heblo_auth'.phase = "ready"]
    /\ UNCHANGED <<cache_file, oauthVars, mwVars, flowVars, storeVars, lateVars, now>>

Login ==
    /\ heblo_auth.phase = "ready"
    /\ \E device_flow \in DeviceFlows, result \in DeviceFlowResults :
          \E out \in {login(heblo_auth, cache_file, device_flow, result)} :
            /\ heblo_auth' = out.auth
            /\ cache_file' = out.file
            /\ call' = [op |-> "login", ok |-> ~out.raised, message |-> out.message,
                        returned |-> out.returned, waited |-> out.waited,
                        wrote |-> out.wrote, changed |-> ~out.raised, before |-> Before]
    /\ UNCHANGED <<oauthVars, mwVars, flowVars, storeVars, lateVars, now>>

GetToken ==
    /\ heblo_auth.phase = "ready"
    /\ \E silent \in SilentOutcomes(heblo_auth.cache) :
          \E out \in {get_token(heblo_auth, cache_file, silent)} :
            /\ heblo_auth' = out.auth
            /\ cache_file' = out.file
            /\ call' = [op |-> "get_token", ok |-> ~out.raised, message |-> out.message,
                        returned |-> out.returned, waited |-> FALSE,
                        wrote |-> out.wrote,
                        changed |-> heblo_auth.cache.account # "" /\ silent.changed,
                        before |-> Before]
    /\ UNCHANGED <<oauthVars, mwVars, flowVars, storeVars, lateVars, now>>

NextAuth ==
    \/ Construct
    \/ Login
    \/ GetToken

(***************************************************************************)
(* Threads inside OAuthSessionStore.  Each thread serves one request at a  *)
(* time and moves through the store's methods statement by statement:      *)
(*   acquire        entering `with self._lock:`                            *)
(*   sweep          _cleanup_expired_states / _cleanup_expired_codes       *)
(*   access         the dict assignment or pop, and what follows it inside *)
(*                  the with block                                         *)
(*   release        leaving the with block                                 *)
(*   await          /callback awaiting _exchange_code_for_token            *)
(*   token_urlsafe  create_proxy_code drawing the code, before the lock    *)
(***************************************************************************)
Threads == {1, 2}
StoreKeys == {"s1"}
StoreChallenges == {<<"d1">>}
StoreVerifiers == {"v1", "v2"}
StoreIdpOutcomes ==
    {[kind |-> "ok", access_token |-> "at1"],
     [kind |-> "network_error", access_token |-> ""]}

Idle ==
    [request |-> "none", op |-> "none", pc |-> "idle", state |-> "", code |-> 0,
     verifier |-> "", seen |-> FALSE, found |-> FALSE, challenge |-> <<>>,
     access_token |-> "", status |-> 0]

NoThreads == [t \in Threads |-> Idle]

NoneObtained == [states |-> [k \in StoreKeys |-> 0], codes |-> [c \in ProxyCodes |-> 0]]

\* dict.__setitem__
setitem(m, k, r) == [x \in DOMAIN m \cup {k} |-> IF x = k THEN r ELSE m[x]]

\* A lock that any thread may take at any time.
LockFree_always(l) == TRUE

\* threading.Lock: acquire goes through only when no thread holds the lock.
LockFree(l) == l = 0

\* A store whose sweep is a critical section of its own, left before the access.
held_after_sweep_released(holder) == 0

\* The with block goes on after the sweep: the holder stays.
held_after_sweep(holder) == holder

\* A callback that awaits the provider inside the with block of get_state.
after_access_holding(request, op, found) ==
    IF request = "callback" /\ op = "get_state" /\ found THEN "await" ELSE "release"

\* Where a thread goes after the last statement inside the with block.
after_access(request, op, found) == "release"

\* Where a thread goes on leaving the with block.
after_release(request, op, found) ==
    IF request = "callback" /\ op = "get_state" /\ found THEN "await" ELSE "done"

\* The response status once the request is done (0 while it goes on).
status_after_release(th) ==
    CASE th.request = "authorize" -> 302
      [] th.request = "callback" /\ th.op = "get_state" -> IF th.found THEN 0 ELSE 400
      [] th.request = "callback" /\ th.op = "create_proxy_code" -> 302
      [] th.request = "token" -> IF th.access_token # "" THEN 200 ELSE 400
      [] OTHER -> 0

OnStates(op) == op \in {"store_state", "get_state"}

StoreFrame == UNCHANGED <<config_class, client_secret, redeemed, consumed, mwVars,
                          flowVars, authVars, lateVars>>

StartAuthorize ==
    \E t \in Threads, k \in StoreKeys, ch \in StoreChallenges :
        /\ threads[t].pc \in {"idle", "done"}
        /\ threads' = [threads EXCEPT ![t] =
                          [Idle EXCEPT !.request = "authorize", !.op = "store_state",
                                       !.pc = "acquire", !.state = k, !.challenge = ch]]
        /\ UNCHANGED <<states, codes, nextCode, now, lock, obtained>>
        /\ StoreFrame

StartCallback ==
    \E t \in Threads, k \in StoreKeys :
        /\ threads[t].pc \in {"idle", "done"}
        /\ threads' = [threads EXCEPT ![t] =
                          [Idle EXCEPT !.request = "callback", !.op = "get_state",
                                       !.pc = "acquire", !.state = k]]
        /\ UNCHANGED <<states, codes, nextCode, now, lock, obtained>>
        /\ StoreFrame

StartToken ==
    \E t \in Threads, c \in 1 .. MaxCodes, v \in StoreVerifiers :
        /\ threads[t].pc \in {"idle", "done"}
        /\ threads' = [threads EXCEPT ![t] =
                          [Idle EXCEPT !.request = "token", !.op = "exchange_code",
                                       !.pc = "acquire", !.code = c, !.verifier = v]]
        /\ UNCHANGED <<states, codes, nextCode, now, lock, obtained>>
        /\ StoreFrame

Acquire ==
    \E t \in Threads :
        /\ threads[t].pc = "acquire"
        /\ LockFree(lock)
        /\ lock' = t
        /\ threads' = [threads EXCEPT ![t].pc = "sweep"]
        /\ UNCHANGED <<states, codes, nextCode, now, obtained>>
        /\ StoreFrame

Sweep ==
    \E t \in Threads :
        /\ threads[t].pc = "sweep"
        /\ IF OnStates(threads[t].op)
           THEN /\ states' = _cleanup_expired_states(states, now)
                /\ threads' = [threads EXCEPT ![t].pc = "access",
                                              ![t].seen = threads[t].state \in DOMAIN states']
                /\ UNCHANGED codes
           ELSE /\ codes' = _cleanup_expired_codes(codes, now)
                /\ threads' = [threads EXCEPT ![t].pc = "access",
                                              ![t].seen = threads[t].code \in DOMAIN codes']
                /\ UNCHANGED states
        /\ lock' = held_after_sweep(lock)
        /\ UNCHANGED <<nextCode, now, obtained>>
        /\ StoreFrame

Access ==
    \E t \in Threads :
        LET th == threads[t] IN
        /\ th.pc = "access"
        /\ CASE th.op = "store_state" ->
                  /\ states' = setitem(states, th.state,
                                       [code_challenge |-> th.challenge,
                                        code_challenge_method |-> "S256",
                                        redirect_uri |-> "https://c/cb",
                                        scope |-> "claudeai",
                                        created_at |-> now])
                  /\ obtained' = [obtained EXCEPT !.states[th.state] = 0]
                  /\ threads' = [threads EXCEPT
                                    ![t].pc = after_access(th.request, th.op, FALSE)]
                  /\ UNCHANGED codes
             [] th.op = "get_state" ->
                  LET found == th.state \in DOMAIN states IN
                  /\ states' = pop(states, th.state)
                  /\ obtained' = IF found
                                 THEN [obtained EXCEPT !.states[th.state] = @ + 1]
                                 ELSE obtained
                  /\ threads' = [threads EXCEPT
                                    ![t].found = found,
                                    ![t].challenge = IF found
                                                     THEN states[th.state].code_challenge
                                                     ELSE <<>>,
                                    ![t].pc = after_access(th.request, th.op, found)]
                  /\ UNCHANGED codes
             [] th.op = "create_proxy_code" ->
                  /\ codes' = setitem(codes, th.code,
                                      [access_token |-> th.access_token,
                                       code_challenge |-> th.challenge,
                                       created_at |-> now])
                  /\ obtained' = [obtained EXCEPT !.codes[th.code] = 0]
                  /\ threads' = [threads EXCEPT
                                    ![t].pc = after_access(th.request, th.op, FALSE)]
                  /\ UNCHANGED states
             [] th.op = "exchange_code" ->
                  LET found == th.code \in DOMAIN codes IN
                  /\ codes' = pop(codes, th.code)
                  /\ obtained' = IF found
                                 THEN [obtained EXCEPT !.codes[th.code] = @ + 1]
                                 ELSE obtained
                  /\ threads' = [threads EXCEPT
                                    ![t].found = found,
                                    ![t].access_token =
                                        IF found /\ pkce_challenge(th.verifier)
                                                      = codes[th.code].code_challenge
                                        THEN codes[th.code].access_token
                                        ELSE "",
                                    ![t].pc = after_access(th.request, th.op, found)]
                  /\ UNCHANGED states
        /\ UNCHANGED <<nextCode, now, lock>>
        /\ StoreFrame

Release ==
    \E t \in Threads :
        LET th == threads[t] IN
        /\ th.pc = "release"
        /\ lock' = 0
        /\ threads' = [threads EXCEPT
                          ![t].pc = after_release(th.request, th.op, th.found),
                          ![t].status = status_after_release(th)]
        /\ UNCHANGED <<states, codes, nextCode, now, obtained>>
        /\ StoreFrame

Await ==
    \E t \in Threads, outcome \in StoreIdpOutcomes :
        LET access_token == _exchange_code_for_token(client_secret, outcome) IN
        /\ threads[t].pc = "await"
        /\ threads' = [threads EXCEPT ![t] =
                          IF access_token = ""
                          THEN [@ EXCEPT !.pc = "done", !.status = 500]
                          ELSE [@ EXCEPT !.pc = "token_urlsafe",
                                         !.op = "create_proxy_code",
                                         !.access_token = access_token]]
        /\ UNCHANGED <<states, codes, nextCode, now, lock, obtained>>
        /\ StoreFrame

Draw ==
    \E t \in Threads :
        /\ threads[t].pc = "token_urlsafe"
        /\ nextCode <= MaxCodes
        /\ nextCode' = nextCode + 1
        /\ threads' = [threads EXCEPT ![t].pc = "acquire", ![t].code = nextCode]
        /\ UNCHANGED <<states, codes, now, lock, obtained>>
        /\ StoreFrame

TickStore ==
    /\ \E d \in OAuthDeltas : Tick(d)
    /\ UNCHANGED <<states, codes, nextCode, lock, threads, obtained>>
    /\ StoreFrame

NextStore ==
    \/ StartAuthorize
    \/ StartCallback
    \/ StartToken
    \/ Acquire
    \/ Sweep
    \/ Access
    \/ Release
    \/ Await
    \/ Draw
    \/ TickStore

(***************************************************************************)
(* Authorization attempts: the three endpoints, with the history of which  *)
(* /authorize a stored state comes from and which state a code comes from  *)
(***************************************************************************)
AttemptAuthorizeRequests ==
    {[AuthorizeBase EXCEPT !.code_challenge = c] : c \in Challenges}
    \cup {[AuthorizeBase EXCEPT !.client_id = x] : x \in ClientIds}

AttemptCallbackRequests ==
    {[CallbackBase EXCEPT !.state = s] : s \in {"s1", "s2"}}
    \cup {[CallbackBase EXCEPT !.error = "access_denied"]}

AttemptTokenRequests ==
    {[TokenBase EXCEPT !.code = c, !.code_verifier = v] :
        c \in ProxyCodes, v \in {"v1", "v2"}}

NoOrigin == [state |-> "", code_challenge |-> <<>>, verifier |-> ""]

AttemptFrame == UNCHANGED <<config_class, client_secret, mwVars, flowVars, authVars,
                            storeVars, shareVars, stackVars>>

AttemptAuthorize ==
    \E r \in AttemptAuthorizeRequests :
        \E out \in {authorize(states, now, r)} :
        /\ states' = out.states
        /\ consumed' = IF out.stored THEN consumed \ {r.state} ELSE consumed
        /\ authorized' = IF out.stored
                         THEN authorized \cup {[state |-> r.state,
                                                code_challenge |-> r.code_challenge]}
                         ELSE authorized
        /\ UNCHANGED <<codes, nextCode, redeemed, now, origin>>
        /\ AttemptFrame

AttemptCallback ==
    \E r \in AttemptCallbackRequests, outcome \in IdpOutcomes :
        \E out \in {callback(states, codes, now, client_secret, nextCode, r, outcome)} :
        /\ out.minted => nextCode <= MaxCodes
        /\ states' = out.states
        /\ codes' = out.codes
        /\ nextCode' = IF out.minted THEN nextCode + 1 ELSE nextCode
        /\ consumed' = IF out.took THEN consumed \cup {r.state} ELSE consumed
        /\ origin' = IF out.minted
                     THEN setitem(origin, nextCode,
                                  IF out.took
                                  THEN [state |-> r.state,
                                        code_challenge |-> states[r.state].code_challenge,
                                        verifier |-> ""]
                                  ELSE NoOrigin)
                     ELSE origin
        /\ UNCHANGED <<redeemed, now, authorized>>
        /\ AttemptFrame

AttemptToken ==
    \E r \in AttemptTokenRequests :
        \E out \in {token(codes, now, r)} :
        /\ codes' = out.codes
        /\ redeemed' = IF out.resp.status = 200 THEN redeemed \cup {r.code} ELSE redeemed
        /\ origin' = IF out.resp.status = 200 /\ r.code \in DOMAIN origin
                     THEN [origin EXCEPT ![r.code].verifier = r.code_verifier]
                     ELSE origin
        /\ UNCHANGED <<states, nextCode, consumed, now, authorized>>
        /\ AttemptFrame

TickAttempt ==
    /\ \E d \in OAuthDeltas : Tick(d)
    /\ UNCHANGED <<states, codes, nextCode, redeemed, consumed, authorized, origin>>
    /\ AttemptFrame

NextAttempt ==
    \/ AttemptAuthorize
    \/ AttemptCallback
    \/ AttemptToken
    \/ TickAttempt

(***************************************************************************)
(* Inbound requests served concurrently in remote mode: each has its own   *)
(* ASGI scope, in which the middleware leaves scope["user"]; its handler   *)
(* sends upstream requests through the one httpx client, whose auth is the *)
(* one SSEBearerAuth instance. The extensions of an upstream request are   *)
(* what the caller of the client passes: nothing, or the user context of   *)
(* the inbound request it is serving.                                      *)
(***************************************************************************)
Inbounds == {"A", "B"}

ShareScopes ==
    [type : {"http"}, path : {"/mcp"},
     headers : {<<>>, <<Header("authorization", "Bearer", "T1")>>,
                <<Header("authorization", "Bearer", "T2")>>}]
        \cup {[type |-> "http", path |-> "/", headers |-> <<>>]}

NoRequest == [authorization |-> NoAuthorization, user_context |-> NoUserContext]

NotInbound ==
    [phase |-> "none", scope |-> [type |-> "http", path |-> "/", headers |-> <<>>],
     user |-> NoUser, request |-> NoRequest, outbound |-> NoOutbound]

NoInbound == [i \in Inbounds |-> NotInbound]

\* The instance attributes of SSEBearerAuth: the class defines no __init__ and
\* auth_flow assigns none.
NoAttributes == [a \in {} |-> ""]

\* An authenticator that keeps the last token it saw and uses it for a request that
\* brings no user context.
SSEBearerAuth_auth_flow_remembering(self, request) ==
    IF request.user_context.kind = "UserContext"
    THEN [self |-> [a \in {"token"} |-> request.user_context.token],
          request |-> SSEBearerAuth_request(request)]
    ELSE IF "token" \in DOMAIN self
    THEN [self |-> self,
          request |-> [request EXCEPT !.authorization = Bearer(self["token"])]]
    ELSE [self |-> self, request |-> request]

\* SSEBearerAuth.auth_flow up to its yield: the instance and the request it leaves.
SSEBearerAuth_auth_flow(self, request) ==
    [self |-> self, request |-> SSEBearerAuth_request(request)]

ShareFrame == UNCHANGED <<oauthVars, flowVars, authVars, storeVars, attemptVars,
                          stackVars, now>>

\* An inbound request arrives and SSEAuthMiddleware handles it.
Arrive(i) ==
    /\ inbound[i].phase = "none"
    /\ \E scope \in ShareScopes, outcome \in {o \in FetchOutcomes : o.keys = <<"k1", "k2">>} :
          \E out \in {SSEAuthMiddleware(scope, jwks_cache, jwks_cache_time, now, outcome)} :
              /\ inbound' = [inbound EXCEPT ![i] =
                                [NotInbound EXCEPT
                                    !.phase = IF out.app_called THEN "handling"
                                              ELSE "refused",
                                    !.scope = scope,
                                    !.user = out.user]]
              /\ jwks_cache' = out.cache
              /\ jwks_cache_time' = out.cache_time
              /\ jwks_fetched' = IF out.fetched /\ outcome.ok
                                 THEN [at |-> now, keys |-> outcome.keys]
                                 ELSE jwks_fetched
    /\ UNCHANGED <<mw, sse_bearer_auth>>
    /\ ShareFrame

\* The handler of an inbound request sends one upstream request through the client.
SendUpstream(i) ==
    /\ inbound[i].phase = "handling"
    /\ \E forwarded \in BOOLEAN, attached \in BOOLEAN :
          \E request \in {[DownstreamRequest(inbound[i].scope, forwarded) EXCEPT
                              !.user_context =
                                  IF attached /\ inbound[i].user # NoUser
                                  THEN [kind |-> "UserContext",
                                        token |-> inbound[i].user.token]
                                  ELSE NoUserContext]} :
              \E out \in {SSEBearerAuth_auth_flow(sse_bearer_auth, request)} :
                  /\ inbound' = [inbound EXCEPT
                                    ![i].request = request,
                                    ![i].outbound =
                                        [issued |-> TRUE,
                                         authorization |-> out.request.authorization]]
                  /\ sse_bearer_auth' = out.self
    /\ UNCHANGED mwVars
    /\ ShareFrame

\* The response to an inbound request is complete.
Respond(i) ==
    /\ inbound[i].phase \in {"handling", "refused"}
    /\ inbound' = [inbound EXCEPT ![i] = NotInbound]
    /\ UNCHANGED <<mwVars, sse_bearer_auth>>
    /\ ShareFrame

ArriveStep == \E i \in Inbounds : Arrive(i)

SendUpstreamStep == \E i \in Inbounds : SendUpstream(i)

RespondStep == \E i \in Inbounds : Respond(i)

NextShare ==
    \/ ArriveStep
    \/ SendUpstreamStep
    \/ RespondStep

(***************************************************************************)
(* The middleware stack of get_sse_middleware with sse_auth_enabled:       *)
(* CORSMiddleware outermost, then HealthCheckMiddleware, then              *)
(* SSEAuthMiddleware(bypass_health=True), then the application             *)
(***************************************************************************)
HttpMethods == {"GET", "POST", "OPTIONS", "DELETE"}

StackHeaders ==
    {<<>>, <<Header("authorization", "Bearer", "T1")>>,
     <<Header("authorization", "Bearer", "Tbad")>>}

\* An http scope has a method; the other scope types have none.
StackScopes ==
    [type : {"http"}, method : HttpMethods, path : {"/", "/mcp"}, headers : StackHeaders]
        \cup [type : ScopeTypes \ {"http"}, method : {""}, path : {"/", "/mcp"},
              headers : StackHeaders]

\* What one call through a layer ends in: who answered ("app" when the application
\* was called), and what the auth middleware did on the way.
Answered(by, status, cache, cache_time) ==
    [by |-> by, status |-> status, validated |-> FALSE, user |-> NoUser,
     cache |-> cache, cache_time |-> cache_time, fetched |-> FALSE]

\* The application behind SSEAuthMiddleware.
AuthLayer(scope, cache, cache_time, t, outcome) ==
    LET out == SSEAuthMiddleware(scope, cache, cache_time, t, outcome) IN
    [by |-> IF out.app_called THEN "app" ELSE "auth", status |-> out.status,
     validated |-> out.validated, user |-> out.user, cache |-> out.cache,
     cache_time |-> out.cache_time, fetched |-> out.fetched]

\* A health responder that answers every HTTP request to the root path.
HealthCheckMiddleware_any_method(scope, cache, cache_time, t, outcome) ==
    IF scope.type = "http" /\ scope.path = "/"
    THEN Answered("health", 200, cache, cache_time)
    ELSE AuthLayer(scope, cache, cache_time, t, outcome)

\* HealthCheckMiddleware.__call__ in front of SSEAuthMiddleware.
HealthCheckMiddleware(scope, cache, cache_time, t, outcome) ==
    IF scope.type = "http" /\ scope.method = "GET" /\ scope.path = "/"
    THEN Answered("health", 200, cache, cache_time)
    ELSE AuthLayer(scope, cache, cache_time, t, outcome)

\* CORSMiddleware.__call__ in front of HealthCheckMiddleware.
CORSMiddleware(scope, cache, cache_time, t, outcome) ==
    IF scope.type # "http"
    THEN HealthCheckMiddleware(scope, cache, cache_time, t, outcome)
    ELSE IF scope.method = "OPTIONS"
    THEN Answered("cors", 200, cache, cache_time)
    ELSE HealthCheckMiddleware(scope, cache, cache_time, t, outcome)

NoStackCall ==
    [scope |-> [type |-> "lifespan", method |-> "", path |-> "/", headers |-> <<>>],
     by |-> "none", status |-> 0, validated |-> FALSE, user |-> NoUser]

\* One inbound call through the whole stack.
StackStep ==
    /\ \E scope \in StackScopes, outcome \in FetchOutcomes :
          \E out \in {CORSMiddleware(scope, jwks_cache, jwks_cache_time, now, outcome)} :
              /\ stack' = [scope |-> scope, by |-> out.by, status |-> out.status,
                           validated |-> out.validated, user |-> out.user]
              /\ jwks_cache' = out.cache
              /\ jwks_cache_time' = out.cache_time
              /\ jwks_fetched' = IF out.fetched /\ outcome.ok
                                 THEN [at |-> now, keys |-> outcome.keys]
                                 ELSE jwks_fetched
    /\ UNCHANGED <<mw, now, oauthVars, flowVars, authVars, storeVars, attemptVars,
                   shareVars>>

NextStack ==
    \/ StackStep
    \/ TickMw

(***************************************************************************)
(* Specifications: each component runs from the state the program is built *)
(* in, while the others stay as built                                      *)
(***************************************************************************)
Built ==
    /\ states = EmptyMap
    /\ codes = EmptyMap
    /\ nextCode = 1
    /\ now = 0
    /\ redeemed = {}
    /\ consumed = {}
    /\ jwks_cache = NoJwks
    /\ jwks_cache_time = 0
    /\ jwks_fetched = [at |-> -1, keys |-> <<>>]
    /\ mw = NoCall
    /\ flow = NoFlow
    /\ lock = 0
    /\ threads = NoThreads
    /\ obtained = NoneObtained
    /\ authorized = {}
    /\ origin = EmptyMap
    /\ inbound = NoInbound
    /\ sse_bearer_auth = NoAttributes
    /\ stack = NoStackCall

\* No HebloAuth is constructed (the remote server authenticates by bearer token).
AuthIdle ==
    /\ cache_file = NoFile
    /\ heblo_auth = NotConstructed
    /\ call = NoAuthCall

\* The config object is a HebloMCPConfig loaded from the environment, or any other
\* object with the attributes the endpoints read (the constructor takes either).
ConfigClasses == {"HebloMCPConfig", "object with client_secret"}

\* HEBLO_CLIENT_SECRET in the environment, or the attribute given to the object.
SecretsGiven == {"", "secret"}

\* getattr(config, "client_secret", None): HebloMCPConfig declares no such field and
\* ignores extra settings, so an instance of it never has the attribute.
getattr_client_secret(class, given) ==
    IF class = "HebloMCPConfig" THEN "" ELSE given

InitConfig ==
    /\ config_class \in ConfigClasses
    /\ \E given \in SecretsGiven : client_secret = getattr_client_secret(config_class, given)

InitOAuth == Built /\ AuthIdle /\ InitConfig

InitMw ==
    /\ Built
    /\ AuthIdle
    /\ config_class = "HebloMCPConfig"
    /\ client_secret = getattr_client_secret(config_class, "secret")

InitFlow ==
    /\ Built
    /\ AuthIdle
    /\ config_class = "HebloMCPConfig"
    /\ client_secret = getattr_client_secret(config_class, "")

SpecOAuth == InitOAuth /\ [][NextOAuth]_vars

SpecMw == InitMw /\ [][NextMw]_vars

SpecFlow == InitFlow /\ [][NextFlow]_vars

\* The local process starts with whatever is at the cache path.
InitAuth ==
    /\ Built
    /\ config_class = "HebloMCPConfig"
    /\ client_secret = getattr_client_secret(config_class, "")
    /\ cache_file \in CacheFiles
    /\ heblo_auth = NotConstructed
    /\ call = NoAuthCall

SpecAuth == InitAuth /\ [][NextAuth]_vars

InitStore == Built /\ AuthIdle /\ InitConfig

SpecStore == InitStore /\ [][NextStore]_vars

InitAttempt == Built /\ AuthIdle /\ InitConfig

SpecAttempt == InitAttempt /\ [][NextAttempt]_vars

InitShare == InitMw

SpecShare == InitShare /\ [][NextShare]_vars

InitStack == InitMw

SpecStack == InitStack /\ [][NextStack]_vars

(***************************************************************************)
(* Properties of the OAuth proxy (SpecOAuth)                               *)
(***************************************************************************)
\* A proxy code that was issued and can no longer be exchanged: it was removed from
\* the store, or its lifetime has run out.
DeadCode(c) ==
    /\ c \in 1 .. (nextCode - 1)
    /\ c \notin DOMAIN codes \/ now - codes[c].created_at > code_ttl

LiveCode(c) == c \in DOMAIN codes /\ ~(now - codes[c].created_at > code_ttl)

TokenWellFormed(r) ==
    /\ r.grant_type = "authorization_code"
    /\ Present(r.code_verifier)
    /\ r.client_id = ConfigClientId

\* C1 (single-use proxy code): once /token has answered 200 for a proxy code, and once
\* a code has been exchanged or has expired, every later /token request naming that
\* code is answered 400 without an access token (invalid_grant when the request is
\* otherwise well formed), whatever verifier it carries; and such a code stays
\* unusable for ever.
C1_SingleUseProxyCode ==
    /\ [](\A r \in TokenRequests :
            (r.code \in redeemed \/ DeadCode(r.code)) =>
                LET out == token(codes, now, r).resp IN
                /\ out.status = 400
                /\ out.access_token = ""
                /\ TokenWellFormed(r) => out.error = "invalid_grant")
    /\ [][\A c \in ProxyCodes :
            /\ c \in redeemed => c \in redeemed' /\ DeadCode(c)'
            /\ DeadCode(c) => DeadCode(c)']_vars

\* C1 witness: a code has been redeemed, and the same request sent again (with the
\* verifier that matched) is refused with invalid_grant.
C1_Witness ==
    \E c \in redeemed :
        \E v \in Verifiers \ {""} :
            LET out == token(codes, now, [TokenBase EXCEPT !.code = c,
                                                           !.code_verifier = v]).resp
            IN  out.status = 400 /\ out.error = "invalid_grant"

\* C2 (state single-use): once /callback has taken a stored state, a later /callback
\* carrying the same state is answered 400 invalid_request, and neither contacts the
\* identity provider nor mints a proxy code (a callback that carries the provider's
\* error parameter is answered 400 with that error, equally without doing either).
C2_StateSingleUse ==
    \A r \in CallbackRequests, outcome \in IdpOutcomes :
        r.state \in consumed =>
            LET out == callback(states, codes, now, client_secret, nextCode, r, outcome)
            IN  /\ out.resp.status = 400
                /\ ~Present(r.error) => out.resp.error = "invalid_request"
                /\ ~out.idp
                /\ ~out.minted
                /\ ~out.took
                /\ out.codes = codes

\* C2 witness: a state has been taken by a callback, and a second well-formed callback
\* with it, for which the identity provider would answer with a token, is refused.
C2_Witness ==
    \E s \in consumed :
        LET out == callback(states, codes, now, client_secret, nextCode,
                            [CallbackBase EXCEPT !.state = s],
                            [kind |-> "ok", access_token |-> "at1"])
        IN  out.resp.status = 400 /\ out.resp.error = "invalid_request" /\ ~out.idp

\* BASE64URL-without-padding of SHA-256 of each verifier, as RFC 7636 defines S256.
S256(v) == CASE v = "v1" -> <<"d1">> [] v = "v2" -> <<"d2">> [] OTHER -> <<"d0">>

\* C3 (PKCE correctness): a well-formed /token request for a live proxy code is
\* answered 200 with the code's access token if and only if S256 of its verifier
\* equals the challenge stored with the code, and 400 invalid_grant otherwise; the
\* challenge stored with a code is the one /callback found in the state it took, and
\* the one stored with a state is the one the client sent to /authorize.
C3_PkceCorrectness ==
    /\ \A r \in TokenRequests :
          (TokenWellFormed(r) /\ LiveCode(r.code)) =>
              LET out == token(codes, now, r).resp IN
              IF S256(r.code_verifier) = codes[r.code].code_challenge
              THEN /\ out.status = 200
                   /\ out.access_token = codes[r.code].access_token
              ELSE /\ out.status = 400
                   /\ out.error = "invalid_grant"
                   /\ out.access_token = ""
    /\ \A r \in CallbackRequests, outcome \in IdpOutcomes :
          LET out == callback(states, codes, now, client_secret, nextCode, r, outcome)
          IN  out.minted =>
                  /\ r.state \in DOMAIN states
                  /\ out.codes[nextCode].code_challenge = states[r.state].code_challenge
    /\ \A r \in AuthorizeRequests :
          LET out == authorize(states, now, r)
          IN  out.stored => out.states[r.state].code_challenge = r.code_challenge

\* C3 witness: a live code whose challenge one verifier matches (200) and another
\* does not (400 invalid_grant).
C3_Witness ==
    \E c \in DOMAIN codes :
        /\ LiveCode(c)
        /\ \E v \in Verifiers \ {""} :
              token(codes, now, [TokenBase EXCEPT !.code = c,
                                                  !.code_verifier = v]).resp.status = 200
        /\ \E v \in Verifiers \ {""} :
              token(codes, now, [TokenBase EXCEPT !.code = c,
                                                  !.code_verifier = v]).resp.error
                  = "invalid_grant"

(***************************************************************************)
(* Properties of the inbound middleware (SpecMw)                           *)
(***************************************************************************)
\* An HTTP request on a path that is neither the health check nor an OAuth endpoint.
Protected(scope) ==
    /\ scope.type = "http"
    /\ scope.path \notin {"/", "/authorize", "/callback", "/token"}

Decodable(headers) == \A i \in 1 .. Len(headers) : headers[i].utf8

\* The credentials of the first "Authorization: Bearer " header ("" when there is none).
CarriedToken(headers) ==
    LET hits == {i \in 1 .. Len(headers) :
                    /\ headers[i].name \in {"authorization", "Authorization"}
                    /\ headers[i].scheme = "Bearer"}
    IN  IF hits = {} THEN ""
        ELSE headers[CHOOSE i \in hits : \A j \in hits : i <= j].credentials

\* The UserContext that the claims of a token describe.
UserContextOf(raw) ==
    LET jwt == JwtOf(raw) IN
    [email |-> IF jwt.preferred_username # "" THEN jwt.preferred_username ELSE jwt.email,
     tenant_id |-> jwt.tid, object_id |-> jwt.oid, token |-> raw]

\* A token that no key set makes valid.
Defective(raw) ==
    LET jwt == JwtOf(raw) IN
    \/ jwt.malformed
    \/ jwt.alg # "RS256"
    \/ jwt.expired
    \/ jwt.aud # ConfigClientId
    \/ jwt.iss # ExpectedIssuer
    \/ jwt.signer \notin {"k1", "k2"}

Rejected401 == mw.status = 401 /\ mw.error # "" /\ ~mw.app_called /\ ~mw.raised

\* C4 (authenticated-only access): the downstream handler runs for an HTTP request on
\* a non-bypassed path only if validate_token succeeded on the bearer token that this
\* request carries, and the scope then holds exactly the UserContext of that token:
\* the token is well formed, unexpired, issued for this service by the tenant, and
\* signed by a key of the key set the validator holds.
C4_AuthenticatedOnly ==
    (Protected(mw.scope) /\ mw.app_called) =>
        LET raw == CarriedToken(mw.scope.headers) IN
        /\ raw # ""
        /\ mw.validated
        /\ ~Defective(raw)
        /\ jwks_cache.cached
        /\ \E i \in 1 .. Len(jwks_cache.keys) : jwks_cache.keys[i] = JwtOf(raw).signer
        /\ mw.user = UserContextOf(raw)
        /\ mw.status = 0

\* C4 witness: the handler ran for a request to /mcp that carried a valid token, with
\* that token's user in the scope.
C4_Witness ==
    /\ Protected(mw.scope)
    /\ mw.app_called
    /\ mw.validated
    /\ mw.user.token = "T2"
    /\ mw.user.email = "u2@example.com"

C6_BypassPaths ==
    (mw.scope.type = "http" /\ mw.scope.path \in {"/", "/authorize", "/callback", "/token"})
        => /\ mw.app_called
           /\ ~mw.validated
           /\ mw.user = NoUser
           /\ mw.status = 0
           /\ ~mw.raised

\* C6 witness: a request to /token that carried a malformed bearer token reached the
\* handler unvalidated.
C6_Witness ==
    /\ mw.scope.type = "http"
    /\ mw.scope.path = "/token"
    /\ CarriedToken(mw.scope.headers) = "Tbad"
    /\ mw.app_called
    /\ ~mw.validated

\* C9 (remote-mode token propagation), as the specification states it: every upstream
\* request issued while handling an inbound request that passed the middleware with
\* bearer token T carries "Authorization: Bearer T".
C9_TokenPropagation ==
    (mw.app_called /\ mw.validated /\ mw.outbound.issued)
        => mw.outbound.authorization = Bearer(mw.user.token)

(***************************************************************************)
(* Properties of the outbound authenticators (SpecFlow)                    *)
(***************************************************************************)
\* C7 (401 retry, local mode): for one outbound request the local authenticator sends
\* at most two attempts; it sends the second only after a first response of 401 and
\* with a token obtained again; the client returns the last response received,
\* whatever its status, and a second 401 leads to no third attempt.
C7_LocalRetry ==
    flow.auth = "msal" =>
        /\ flow.attempts <= 2
        /\ flow.acquired = flow.attempts \/ flow.pc = "raised"
        /\ flow.attempts = 2 => flow.responses # <<>> /\ flow.responses[1] = 401
        /\ flow.pc = "done" =>
              /\ Len(flow.responses) = flow.attempts
              /\ flow.result = flow.responses[Len(flow.responses)]
              /\ flow.attempts = IF flow.responses[1] = 401 THEN 2 ELSE 1
        /\ flow.pc = "yielded" => Len(flow.responses) = flow.attempts - 1
        /\ flow.pc \in {"yielded", "done"} =>
              /\ flow.request.authorization.scheme = "Bearer"
              /\ flow.request.authorization.credentials \in LocalTokens

\* C7 witness: two consecutive 401 responses, and the flow ended after the second
\* attempt with the second 401 as its result.
C7_Witness ==
    /\ flow.auth = "msal"
    /\ flow.pc = "done"
    /\ flow.responses = <<401, 401>>
    /\ flow.attempts = 2
    /\ flow.result = 401

C10_NoUserContext ==
    (flow.auth = "sse" /\ flow.given.user_context = NoUserContext) =>
        /\ flow.pc \in {"yielded", "done"}
        /\ flow.attempts = 1
        /\ flow.request = flow.given

\* C10 witness: a request without user context and without an Authorization header
\* was sent and answered, still without the header.
C10_Witness ==
    /\ flow.auth = "sse"
    /\ flow.pc = "done"
    /\ flow.given.user_context = NoUserContext
    /\ flow.given.authorization = NoAuthorization
    /\ flow.request.authorization = NoAuthorization

(***************************************************************************)
(* Properties of the OAuth proxy, continued (SpecOAuth)                    *)
(***************************************************************************)
ExpiredState(s) == s \in DOMAIN states /\ now - states[s].created_at > state_ttl

ExpiredCode(c) == c \in DOMAIN codes /\ now - codes[c].created_at > code_ttl

\* The map without the entry for k.
Without(m, k) == [x \in DOMAIN m \ {k} |-> m[x]]

\* C11 (expiry): /callback answers a request naming a stored state whose TTL has
\* elapsed exactly as it would if the state were absent (400 invalid_request when the
\* request is otherwise well formed), without contacting the provider or minting a
\* code; /token answers a request naming a stored code whose TTL has elapsed exactly
\* as it would if the code were absent (400 invalid_grant when otherwise well formed),
\* whatever the verifier, the matching one included.
C11_Expiry ==
    /\ \A r \in CallbackRequests, outcome \in IdpOutcomes :
          ExpiredState(r.state) =>
              LET out == callback(states, codes, now, client_secret, nextCode, r, outcome)
                  absent == callback(Without(states, r.state), codes, now, client_secret,
                                     nextCode, r, outcome)
              IN  /\ out.resp = absent.resp
                  /\ ~out.idp /\ ~out.minted /\ ~out.took
                  /\ (~Present(r.error) /\ Present(r.code)) =>
                        (out.resp.status = 400 /\ out.resp.error = "invalid_request")
    /\ \A r \in TokenRequests :
          ExpiredCode(r.code) =>
              LET out == token(codes, now, r)
                  absent == token(Without(codes, r.code), now, r)
              IN  /\ out.resp = absent.resp
                  /\ out.resp.access_token = ""
                  /\ TokenWellFormed(r) =>
                        (out.resp.status = 400 /\ out.resp.error = "invalid_grant")

\* C11 witness: the store holds a state older than 600 s and a code older than 300 s;
\* the callback for that state is refused, and so is the token request that carries
\* the code's matching verifier.
C11_Witness ==
    /\ \E s \in DOMAIN states :
          /\ ExpiredState(s)
          /\ callback(states, codes, now, client_secret, nextCode,
                      [CallbackBase EXCEPT !.state = s],
                      [kind |-> "ok", access_token |-> "at1"]).resp.error
                = "invalid_request"
    /\ \E c \in DOMAIN codes, v \in Verifiers :
          /\ ExpiredCode(c)
          /\ S256(v) = codes[c].code_challenge
          /\ token(codes, now, [TokenBase EXCEPT !.code = c,
                                                 !.code_verifier = v]).resp.error
                = "invalid_grant"

\* The three requests of one authorization served in a row from the current state:
\* /authorize 302 to the provider with state s1, /callback 302 to the client with a
\* fresh proxy code after the token exchange, /token 200 with the provider's token.
EndToEndFlow ==
    \A at \in AccessTokens :
        LET a == authorize(states, now, AuthorizeBase)
            c == callback(a.states, codes, now, client_secret, nextCode, CallbackBase,
                          [kind |-> "ok", access_token |-> at])
            t == token(c.codes, now, [TokenBase EXCEPT !.code = nextCode])
        IN  /\ a.resp.status = 302
            /\ a.resp.location.url = AzureAuthorizeUrl
            /\ a.resp.location.state = "s1"
            /\ c.idp
            /\ c.minted
            /\ c.resp.status = 302
            /\ c.resp.location.url = "https://c/cb"
            /\ c.resp.location.code = nextCode
            /\ c.resp.location.state = "s1"
            /\ t.resp.status = 200
            /\ t.resp.access_token = at
            /\ t.resp.token_type = "Bearer"
            /\ t.resp.expires_in = 3600

\* C12 (end-to-end flow), as the specification states it: with a configuration loaded
\* through HebloMCPConfig and an empty store, /authorize, the provider's /callback
\* and /token succeed in turn and hand the provider's access token to the client.
C12_EndToEndFlow ==
    (config_class = "HebloMCPConfig" /\ states = EmptyMap /\ codes = EmptyMap
        /\ nextCode <= MaxCodes)
        => EndToEndFlow

AuthorizeMissing(r) ==
    \/ r.client_id = ""
    \/ r.redirect_uri = ""
    \/ r.state = ""
    \/ r.code_challenge = <<>>
    \/ r.code_challenge_method = ""

\* C13 (/authorize validation): a request that lacks any of client_id, redirect_uri,
\* state, code_challenge, code_challenge_method is answered 400 invalid_request;
\* otherwise a request whose client_id is not the configured one is answered 400
\* invalid_client; in both cases nothing is stored and the session store is left
\* exactly as it was.
C13_AuthorizeValidation ==
    \A r \in AuthorizeRequests :
        LET out == authorize(states, now, r) IN
        /\ AuthorizeMissing(r) =>
              /\ out.resp.status = 400
              /\ out.resp.error = "invalid_request"
              /\ out.states = states
              /\ ~out.stored
        /\ (~AuthorizeMissing(r) /\ r.client_id # ConfigClientId) =>
              /\ out.resp.status = 400
              /\ out.resp.error = "invalid_client"
              /\ out.states = states
              /\ ~out.stored

\* C13 witness: with a state in the store, a request without code_challenge is
\* refused as invalid_request and a complete request of another client as
\* invalid_client, and the store stays as it is.
C13_Witness ==
    /\ states # EmptyMap
    /\ authorize(states, now, [AuthorizeBase EXCEPT !.code_challenge = <<>>]).resp.error
          = "invalid_request"
    /\ LET out == authorize(states, now, [AuthorizeBase EXCEPT !.client_id = "other",
                                                                !.state = "s2"])
       IN  out.resp.error = "invalid_client" /\ out.states = states

\* C14 (/authorize success): a complete request of the configured client stores,
\* under the client's state key, the client's code_challenge, method and
\* redirect_uri, and is answered 302 to the provider's authorization URL with the
\* client's state unchanged, the proxy's own callback URL as redirect_uri and the
\* configured API scope as scope, whatever redirect_uri and scope the client sent.
C14_AuthorizeSuccess ==
    \A r \in AuthorizeRequests :
        (~AuthorizeMissing(r) /\ r.client_id = ConfigClientId) =>
            LET out == authorize(states, now, r) IN
            /\ out.stored
            /\ r.state \in DOMAIN out.states
            /\ out.states[r.state].code_challenge = r.code_challenge
            /\ out.states[r.state].code_challenge_method = r.code_challenge_method
            /\ out.states[r.state].redirect_uri = r.redirect_uri
            /\ out.states[r.state].created_at = now
            /\ out.resp.status = 302
            /\ out.resp.location.url = AzureAuthorizeUrl
            /\ out.resp.location.client_id = ConfigClientId
            /\ out.resp.location.state = r.state
            /\ out.resp.location.redirect_uri = ProxyCallbackUrl
            /\ out.resp.location.redirect_uri # r.redirect_uri
            /\ out.resp.location.scope = ApiScope
            /\ out.resp.location.scope # r.scope

\* C14 witness: the store holds the state of a request that named its own scope and
\* redirect_uri, and serving that request again answers 302 with the proxy's values.
C14_Witness ==
    \E r \in AuthorizeRequests :
        /\ r.redirect_uri = "https://d/cb"
        /\ r.state \in DOMAIN states
        /\ states[r.state].redirect_uri = r.redirect_uri
        /\ states[r.state].code_challenge = r.code_challenge
        /\ authorize(states, now, r).resp.location.redirect_uri = ProxyCallbackUrl
        /\ authorize(states, now, [r EXCEPT !.scope = "custom"]).resp.location.scope
              = ApiScope

LiveState(s) == s \in DOMAIN states /\ ~(now - states[s].created_at > state_ttl)

\* A callback without error parameter, with a provider code and a live state.
CallbackProceeds(r) == ~Present(r.error) /\ Present(r.code) /\ LiveState(r.state)

\* C15 (/callback success): when the state is live and the token exchange with the
\* provider succeeds, exactly one proxy code is added to the live codes, it is bound
\* to the access token the provider returned and to the code_challenge of the state
\* that was taken, and the answer is 302 to the redirect_uri recorded in that state
\* with the new proxy code and the original state as query parameters.
C15_CallbackSuccess ==
    \A r \in CallbackRequests, outcome \in IdpOutcomes :
        (CallbackProceeds(r) /\ Present(client_secret) /\ outcome.kind = "ok") =>
            LET out == callback(states, codes, now, client_secret, nextCode, r, outcome)
            IN  /\ out.minted /\ out.idp /\ out.took
                /\ nextCode \notin DOMAIN codes
                /\ DOMAIN out.codes = {c \in DOMAIN codes : LiveCode(c)} \cup {nextCode}
                /\ \A c \in DOMAIN out.codes \ {nextCode} : out.codes[c] = codes[c]
                /\ out.codes[nextCode].access_token = outcome.access_token
                /\ out.codes[nextCode].code_challenge = states[r.state].code_challenge
                /\ out.codes[nextCode].created_at = now
                /\ r.state \notin DOMAIN out.states
                /\ out.resp.status = 302
                /\ out.resp.location.url = states[r.state].redirect_uri
                /\ out.resp.location.code = nextCode
                /\ out.resp.location.state = r.state

\* C15 witness: a live state that recorded the second client redirect_uri and the
\* second challenge, and a callback for it that mints a code and redirects there.
C15_Witness ==
    \E s \in DOMAIN states :
        /\ LiveState(s)
        /\ states[s].redirect_uri = "https://d/cb" \/ states[s].code_challenge = <<"d2">>
        /\ LET out == callback(states, codes, now, client_secret, nextCode,
                               [CallbackBase EXCEPT !.state = s],
                               [kind |-> "ok", access_token |-> "at2"])
           IN  /\ out.minted
               /\ out.resp.status = 302
               /\ out.resp.location.url = states[s].redirect_uri
               /\ out.codes[nextCode].access_token = "at2"

\* C16 (/callback provider error): a callback that carries an error parameter is
\* answered 400 with that error and its description as given ("Unknown error" when
\* the provider sent none), no token exchange takes place, no code is minted, and
\* the session store is left as it was: a state named in the request stays stored.
C16_CallbackProviderError ==
    \A r \in CallbackRequests, outcome \in IdpOutcomes :
        Present(r.error) =>
            LET out == callback(states, codes, now, client_secret, nextCode, r, outcome)
            IN  /\ out.resp.status = 400
                /\ out.resp.error = r.error
                /\ out.resp.error_description =
                      (IF Present(r.error_description) THEN r.error_description
                       ELSE "Unknown error")
                /\ ~out.idp /\ ~out.minted /\ ~out.took
                /\ out.states = states
                /\ out.codes = codes

\* C16 witness: state s1 is stored, and a callback naming s1 together with the
\* provider's access_denied error is answered 400 access_denied while s1 stays.
C16_Witness ==
    /\ LiveState("s1")
    /\ LET out == callback(states, codes, now, client_secret, nextCode,
                           [CallbackBase EXCEPT !.error = "access_denied",
                                                !.error_description = "user cancelled"],
                           [kind |-> "ok", access_token |-> "at1"])
       IN  /\ out.resp.status = 400
           /\ out.resp.error = "access_denied"
           /\ out.resp.error_description = "user cancelled"
           /\ "s1" \in DOMAIN out.states

\* C17 (/callback exchange failure): when the state is live and the token exchange
\* fails (the provider answers with an error, the network fails, or no client secret
\* is configured) the answer is 500 server_error with a description, no code is
\* minted, and the state is gone: the same callback repeated is answered 400
\* invalid_request.
C17_CallbackExchangeFailure ==
    \A r \in CallbackRequests, outcome \in IdpOutcomes :
        (CallbackProceeds(r) /\ (~Present(client_secret) \/ outcome.kind # "ok")) =>
            LET out == callback(states, codes, now, client_secret, nextCode, r, outcome)
            IN  /\ out.resp.status = 500
                /\ out.resp.error = "server_error"
                /\ out.resp.error_description # ""
                /\ ~out.minted
                /\ out.codes = codes
                /\ out.took
                /\ r.state \notin DOMAIN out.states
                /\ \A again \in IdpOutcomes :
                      LET rep == callback(out.states, out.codes, now, client_secret,
                                          nextCode, r, again)
                      IN  /\ rep.resp.status = 400
                          /\ rep.resp.error = "invalid_request"
                          /\ ~rep.idp /\ ~rep.minted

\* C17 witness: a state was taken by a callback and no code was ever minted, so the
\* exchange failed; the callback repeated with that state is refused.
C17_Witness ==
    \E s \in consumed :
        /\ nextCode = 1
        /\ s \notin DOMAIN states
        /\ callback(states, codes, now, client_secret, nextCode,
                    [CallbackBase EXCEPT !.state = s],
                    [kind |-> "ok", access_token |-> "at1"]).resp.error
              = "invalid_request"

TokenMissing(r) == r.code = 0 \/ r.code_verifier = "" \/ r.client_id = ""

\* A live code can still be exchanged in the store cs by a well-formed request.
Redeemable(cs, c) ==
    \E v \in Verifiers :
        token(cs, now, [TokenBase EXCEPT !.code = c, !.code_verifier = v]).resp.status = 200

\* C18 (/token validation order): a request whose grant_type is not
\* authorization_code is answered 400 unsupported_grant_type; otherwise one that
\* lacks code, code_verifier or client_id is answered 400 invalid_request; otherwise
\* one whose client_id is not the configured one is answered 400 invalid_client; none
\* of the three touches the session store, so a live code the request names can
\* still be redeemed afterwards.
C18_TokenValidationOrder ==
    \A r \in TokenRequests :
        LET out == token(codes, now, r)
            early == \/ r.grant_type # "authorization_code"
                     \/ TokenMissing(r)
                     \/ r.client_id # ConfigClientId
        IN  /\ r.grant_type # "authorization_code" =>
                  (out.resp.status = 400 /\ out.resp.error = "unsupported_grant_type")
            /\ (r.grant_type = "authorization_code" /\ TokenMissing(r)) =>
                  (out.resp.status = 400 /\ out.resp.error = "invalid_request")
            /\ (r.grant_type = "authorization_code" /\ ~TokenMissing(r)
                    /\ r.client_id # ConfigClientId) =>
                  (out.resp.status = 400 /\ out.resp.error = "invalid_client")
            /\ early => out.codes = codes
            /\ (early /\ LiveCode(r.code)) => Redeemable(out.codes, r.code)

\* C18 witness: code 1 is live; requests naming it with another grant type, without
\* verifier, and with another client_id get the three errors, and the one with two
\* defects gets the error of the earlier test.
C18_Witness ==
    /\ LiveCode(1)
    /\ token(codes, now, [TokenBase EXCEPT !.grant_type = "refresh_token",
                                           !.client_id = "other",
                                           !.code_verifier = ""]).resp.error
          = "unsupported_grant_type"
    /\ token(codes, now, [TokenBase EXCEPT !.client_id = "other",
                                           !.code_verifier = ""]).resp.error
          = "invalid_request"
    /\ LET out == token(codes, now, [TokenBase EXCEPT !.client_id = "other"])
       IN  out.resp.error = "invalid_client" /\ Redeemable(out.codes, 1)

GenericInvalidGrant ==
    JSONError(400, "invalid_grant", "Invalid authorization code or code verifier")

\* C19 (no PKCE oracle): an otherwise well-formed /token request gets one and the same
\* response, 400 invalid_grant with one description, whether its code is unknown,
\* expired or already used, or its code is live and the verifier does not match.
C19_NoPkceOracle ==
    \A r \in TokenRequests :
        (TokenWellFormed(r) /\ PresentCode(r.code)) =>
            LET out == token(codes, now, r).resp IN
            /\ ~LiveCode(r.code) => out = GenericInvalidGrant
            /\ (LiveCode(r.code) /\ S256(r.code_verifier) # codes[r.code].code_challenge)
                  => out = GenericInvalidGrant

\* C19 witness: code 1 is live and code MaxCodes + 1 was never issued; the request for
\* code 1 with a verifier that does not match and the request for the unknown code
\* get equal responses.
C19_Witness ==
    \E v \in Verifiers \ {""} :
        /\ LiveCode(1)
        /\ S256(v) # codes[1].code_challenge
        /\ token(codes, now, [TokenBase EXCEPT !.code = 1, !.code_verifier = v]).resp
              = token(codes, now, [TokenBase EXCEPT !.code = MaxCodes + 1,
                                                    !.code_verifier = v]).resp

(***************************************************************************)
(* Properties of the inbound middleware, continued (SpecMw)                *)
(***************************************************************************)
\* One token for each failure mode of the matrix.
MatrixTokens == {"Texp", "Taud", "Tiss", "Tsig", "Tbad"}

\* The error named after each failure mode.
NamedError(raw) ==
    CASE raw = "Texp" -> "Token expired. Please refresh your authentication."
      [] raw = "Taud" -> "Token not valid for this service. Invalid audience."
      [] raw = "Tiss" -> "Token not valid for this service. Invalid issuer."
      [] raw = "Tsig" -> "Invalid token signature."
      [] raw = "Tbad" -> "Invalid token format. Expected JWT Bearer token."

\* The messages of the catch-all clause, "Token validation failed: ...".
CatchAllErrors ==
    {"Token validation failed: Unable to fetch JWKS",
     "Token validation failed: Unable to find matching signing key in JWKS",
     "Token validation failed: The specified alg value is not allowed"}

McpRequest(raw) ==
    [type |-> "http", path |-> "/mcp", headers |-> <<Header("authorization", "Bearer", raw)>>]

\* C20 (bearer rejection matrix): a token that is expired, has the wrong audience, has
\* the wrong issuer, has an invalid signature, or is malformed is rejected by
\* validate_token, when the key its header names is at hand, with the error named
\* after that failure mode; the five errors differ pairwise and none is a catch-all
\* message; and each such token makes the middleware answer 401 with that error
\* without calling the handler.
C20_BearerRejectionMatrix ==
    /\ \A a \in MatrixTokens :
          /\ NamedError(a) \notin CatchAllErrors
          /\ \A b \in MatrixTokens \ {a} : NamedError(a) # NamedError(b)
    /\ \A raw \in MatrixTokens, outcome \in FetchOutcomes :
          LET v == validate_token(raw, jwks_cache, jwks_cache_time, now, outcome)
              m == SSEAuthMiddleware(McpRequest(raw), jwks_cache, jwks_cache_time, now,
                                     outcome)
              key_at_hand ==
                  /\ v.cache.cached
                  /\ \E i \in 1 .. Len(v.cache.keys) : v.cache.keys[i] = JwtOf(raw).kid
          IN  /\ v.error # ""
              /\ v.user = NoUser
              /\ (JwtOf(raw).malformed \/ key_at_hand) => v.error = NamedError(raw)
              /\ m.status = 401
              /\ m.error = v.error
              /\ ~m.app_called
              /\ ~m.raised

\* C20 witness: the middleware has answered 401 "Invalid token signature." to a
\* request, the validator holds a key set, and each of the five tokens would now be
\* rejected with its own error even if the key set could not be fetched again.
C20_Witness ==
    /\ mw.status = 401
    /\ CarriedToken(mw.scope.headers) = "Tsig"
    /\ mw.error = "Invalid token signature."
    /\ jwks_cache.cached
    /\ \A raw \in MatrixTokens :
          SSEAuthMiddleware(McpRequest(raw), jwks_cache, jwks_cache_time, now,
                            [ok |-> FALSE, keys |-> <<>>]).error = NamedError(raw)


(***************************************************************************)
(* C21  JWKS cache hit.  Once a key set has been fetched at time t, every  *)
(* request made before t + jwks_cache_ttl is answered from the cache: the  *)
(* key set returned is the one fetched at t, no fetch is made whatever the *)
(* network would answer, and the cache and its time stamp stay as they are.*)
(***************************************************************************)
C21_JwksCacheHit ==
    (jwks_fetched.at >= 0 /\ now < jwks_fetched.at + jwks_cache_ttl) =>
        /\ \A outcome \in FetchOutcomes :
              LET got == _get_jwks(jwks_cache, jwks_cache_time, now, outcome) IN
              /\ ~got.fetched
              /\ got.ok
              /\ got.keys = jwks_fetched.keys
              /\ got.cache = jwks_cache
              /\ got.cache_time = jwks_cache_time
        /\ \A raw \in BearerTokens, outcome \in FetchOutcomes :
              ~validate_token(raw, jwks_cache, jwks_cache_time, now, outcome).fetched

\* A request validated strictly after the fetch and before the cache expires,
\* which made no fetch.
C21_Witness ==
    /\ jwks_fetched.at >= 0
    /\ now > jwks_fetched.at
    /\ now < jwks_fetched.at + jwks_cache_ttl
    /\ mw.validated
    /\ mw.user # NoUser
    /\ ~mw.fetched

(***************************************************************************)
(* C22  JWKS stale fallback.  When the cache has expired and the refresh   *)
(* fails, validation goes on with the key set cached before: every token   *)
(* gets the verdict it would get from a fresh cache of the same key set.   *)
(* The key-set-unavailable error is raised only when the fetch fails and   *)
(* no key set was ever cached.                                             *)
(***************************************************************************)
FailedFetches == {o \in FetchOutcomes : ~o.ok}

JwksUnavailable == "Token validation failed: Unable to fetch JWKS"

C22_JwksStaleFallback ==
    /\ jwks_cache.cached <=> jwks_fetched.at >= 0
    /\ (jwks_cache.cached /\ now - jwks_cache_time >= jwks_cache_ttl) =>
          \A outcome \in FailedFetches :
              LET got == _get_jwks(jwks_cache, jwks_cache_time, now, outcome) IN
              /\ got.fetched
              /\ got.ok
              /\ got.keys = jwks_cache.keys
              /\ \A raw \in BearerTokens :
                    LET stale == validate_token(raw, jwks_cache, jwks_cache_time, now, outcome)
                        fresh == validate_token(raw, jwks_cache, now, now, outcome)
                    IN  stale.error = fresh.error /\ stale.user = fresh.user
    /\ \A raw \in BearerTokens, outcome \in FetchOutcomes :
          validate_token(raw, jwks_cache, jwks_cache_time, now, outcome).error = JwksUnavailable
              => (~outcome.ok /\ jwks_fetched.at < 0)
    /\ jwks_fetched.at < 0 =>
          \A outcome \in FailedFetches :
              ~_get_jwks(jwks_cache, jwks_cache_time, now, outcome).ok

\* A token accepted on a request whose refresh failed after the cache expired.
C22_Witness ==
    /\ jwks_fetched.at >= 0
    /\ now - jwks_fetched.at >= jwks_cache_ttl
    /\ mw.fetched
    /\ ~mw.fetch_ok
    /\ mw.validated
    /\ mw.user # NoUser


(***************************************************************************)
(* C27  Token hidden in the default text form.  The text of a UserContext  *)
(* is the same for every token the context may carry, and no piece of the  *)
(* text of an authenticated user's context is the token.                   *)
(***************************************************************************)
Contains(text, str) == \E i \in 1 .. Len(text) : text[i] = str

C27_TokenHidden ==
    /\ \A raw \in BearerTokens, other \in BearerTokens \cup {""} :
          UserContext__repr__([UserContextOf(raw) EXCEPT !.token = other])
              = UserContext__repr__(UserContextOf(raw))
    /\ mw.user # NoUser =>
          /\ ~Contains(UserContext__repr__(mw.user), mw.user.token)
          /\ Contains(UserContext__repr__(mw.user), mw.user.email)

\* An authenticated request whose user has the identity of another token's user.
C27_Witness ==
    /\ mw.validated
    /\ mw.user # NoUser
    /\ mw.user.token # ""
    /\ \E raw \in BearerTokens :
          /\ raw # mw.user.token
          /\ [UserContextOf(raw) EXCEPT !.token = mw.user.token] = mw.user
          /\ UserContext__repr__(UserContextOf(raw)) = UserContext__repr__(mw.user)


(***************************************************************************)
(* C23  get_token failure.  get_token fails with the no-cached-token       *)
(* error, whose message tells the caller to run the interactive login,     *)
(* exactly when no account is cached or the silent retrieval for the       *)
(* cached account yields no access token; the failing call does not write  *)
(* the cache file.                                                         *)
(***************************************************************************)
C23_GetTokenFailure ==
    /\ heblo_auth.phase = "ready" =>
          \A silent \in SilentOutcomes(heblo_auth.cache) :
              LET out == get_token(heblo_auth, cache_file, silent) IN
              IF heblo_auth.cache.account = "" \/ silent.result # "token"
              THEN /\ out.raised
                   /\ out.message = NoCachedToken
                   /\ out.returned = ""
                   /\ ~out.wrote
                   /\ out.file = cache_file
              ELSE /\ ~out.raised
                   /\ out.returned = silent.access_token
    /\ (call.op = "get_token" /\ ~call.ok) =>
          (call.message = NoCachedToken /\ ~call.wrote)

\* get_token has failed for a cached account, with a change of the in-memory cache
\* that the file on disk does not have.
C23_Witness ==
    /\ call.op = "get_token"
    /\ ~call.ok
    /\ heblo_auth.cache.account # ""
    /\ heblo_auth.has_state_changed
    /\ cache_file.exists
    /\ cache_file.text # serialize(heblo_auth.cache)

(***************************************************************************)
(* C24  login failure.  If the flow-initiation response has no user code,  *)
(* login fails with the flow-initiation error carrying the provider's      *)
(* error description and never starts the blocking wait.  If the completed *)
(* flow yields no access token, login fails with the authentication error  *)
(* carrying the provider's error description.  Neither changes the file.   *)
(***************************************************************************)
C24_LoginFailure ==
    /\ heblo_auth.phase = "ready" =>
          \A device_flow \in DeviceFlows, result \in DeviceFlowResults :
              LET out == login(heblo_auth, cache_file, device_flow, result) IN
              /\ device_flow.user_code = Missing =>
                    /\ out.raised
                    /\ out.message[1] = "Failed to create device flow: "
                    /\ device_flow.error_description # Missing =>
                          out.message[2] = device_flow.error_description
                    /\ ~out.waited
                    /\ ~out.wrote
                    /\ out.file = cache_file
              /\ (device_flow.user_code # Missing /\ result.access_token = Missing) =>
                    /\ out.raised
                    /\ out.message[1] = "Authentication failed: "
                    /\ result.error_description # Missing =>
                          out.message[2] = result.error_description
                    /\ out.waited
                    /\ ~out.wrote
                    /\ out.file = cache_file
              /\ (device_flow.user_code # Missing /\ result.access_token # Missing) =>
                    ~out.raised
    /\ (call.op = "login" /\ ~call.ok) => ~call.wrote

\* A login that waited for the flow and failed, while the in-memory cache has a
\* change that the file on disk does not have.
C24_Witness ==
    /\ call.op = "login"
    /\ ~call.ok
    /\ call.waited
    /\ call.message = <<"Authentication failed: ", "AADSTS70016: user declined">>
    /\ heblo_auth.has_state_changed
    /\ cache_file.exists
    /\ cache_file.text # serialize(heblo_auth.cache)

(***************************************************************************)
(* C25  Idempotent cache write.  The cache file is written only when the   *)
(* cache signals a state change, and then with the serialized cache.  A    *)
(* get_token that follows a successful get_token, with no change made to   *)
(* the cache in between or by the retrieval, writes nothing and leaves the *)
(* file as it is.                                                          *)
(***************************************************************************)
C25_IdempotentCacheWrite ==
    /\ heblo_auth.phase = "ready" =>
          /\ \A silent \in SilentOutcomes(heblo_auth.cache) :
                LET out == get_token(heblo_auth, cache_file, silent) IN
                /\ out.wrote => (heblo_auth.has_state_changed \/ silent.changed)
                /\ out.wrote => out.file = [exists |-> TRUE, text |-> serialize(out.auth.cache)]
                /\ ~out.wrote => out.file = cache_file
          /\ \A saved \in {_save_cache(heblo_auth, cache_file)} :
                /\ saved.wrote <=> heblo_auth.has_state_changed
                /\ ~saved.wrote => saved.file = cache_file
                /\ ~saved.auth.has_state_changed
    /\ (call.op = "get_token" /\ call.ok) =>
          /\ ~heblo_auth.has_state_changed
          /\ \A silent \in SilentOutcomes(heblo_auth.cache) :
                ~silent.changed =>
                    LET out == get_token(heblo_auth, cache_file, silent) IN
                    ~out.wrote /\ out.file = cache_file /\ out.auth = heblo_auth

\* The second of two successful get_token calls in a row: the cache did not change
\* and nothing was written.
C25_Witness ==
    /\ call.op = "get_token"
    /\ call.ok
    /\ call.before = <<"get_token", "returned">>
    /\ ~call.changed
    /\ ~call.wrote
    /\ cache_file.exists
    /\ cache_file.text = serialize(heblo_auth.cache)

(***************************************************************************)
(* C26  Corrupt cache file.  When the file exists at startup and is not a  *)
(* valid serialized cache, the authenticator is constructed as it would be *)
(* with the file absent, rather than failing.                              *)
(***************************************************************************)
C26_CorruptCacheFile ==
    (heblo_auth.phase = "start" /\ cache_file.exists /\ deserialize(cache_file.text).raised)
        => HebloAuth__init__(cache_file) = HebloAuth__init__(NoFile)


(***************************************************************************)
(* C28  Atomic consume under concurrency.  Among concurrent /callback      *)
(* requests naming the same state, and among concurrent /token requests    *)
(* naming the same code, at most one obtains the stored record; and the    *)
(* entry a request's expiry sweep has left in the map is still there when  *)
(* the request pops it: no other request removes it in between.            *)
(***************************************************************************)
InSection(t) == threads[t].pc \in {"sweep", "access", "release"}

C28_AtomicConsume ==
    /\ \A k \in StoreKeys : obtained.states[k] <= 1
    /\ \A c \in ProxyCodes : obtained.codes[c] <= 1
    /\ \A t \in Threads :
          threads[t].pc = "access" =>
              /\ threads[t].op = "get_state" =>
                    threads[t].seen = (threads[t].state \in DOMAIN states)
              /\ threads[t].op = "exchange_code" =>
                    threads[t].seen = (threads[t].code \in DOMAIN codes)
    /\ \A t, u \in Threads :
          (/\ threads[t].request = "token" /\ threads[u].request = "token"
           /\ threads[t].code = threads[u].code
           /\ threads[t].access_token # "" /\ threads[u].access_token # "")
              => t = u

\* One /callback has taken the state and is leaving get_state while another
\* /callback naming the same state waits for the lock.
C28_Witness ==
    \E t, u \in Threads :
        /\ t # u
        /\ threads[t].request = "callback" /\ threads[u].request = "callback"
        /\ threads[t].state = threads[u].state
        /\ threads[t].op = "get_state" /\ threads[t].pc = "release" /\ threads[t].found
        /\ threads[u].op = "get_state" /\ threads[u].pc = "acquire"
        /\ obtained.states[threads[t].state] = 1

(***************************************************************************)
(* C29  Single lock.  Every statement that reads, writes or deletes in     *)
(* either map, the expiry sweeps included, runs in a thread that holds the *)
(* store's one lock; at most one thread is inside a critical section at a  *)
(* time; and no step changes a map unless the lock is held.                *)
(***************************************************************************)
C29_SingleLock ==
    /\ [](\A t \in Threads : InSection(t) => lock = t)
    /\ [](\A t, u \in Threads : (InSection(t) /\ InSection(u)) => t = u)
    /\ [][(states' # states \/ codes' # codes) =>
              (lock \in Threads /\ threads[lock].pc \in {"sweep", "access"})]_vars

\* One thread is inside get_state, on the states map, while another has come to
\* exchange_code, on the codes map, and waits for the same lock.
C29_Witness ==
    \E t, u \in Threads :
        /\ threads[t].op = "get_state" /\ threads[t].pc = "access" /\ threads[t].seen
        /\ lock = t
        /\ threads[u].op = "exchange_code" /\ threads[u].pc = "acquire"
        /\ threads[u].code \in DOMAIN codes

(***************************************************************************)
(* C30  No lock across network I/O.  A /callback thread holds the lock     *)
(* only inside get_state and inside create_proxy_code: the lock is not     *)
(* held while the thread awaits the token exchange, nor while it draws the *)
(* proxy code; it is released once the state is consumed and taken again   *)
(* only to store the proxy code.                                           *)
(***************************************************************************)
C30_NoLockAcrossAwait ==
    \A t \in Threads :
        /\ threads[t].pc \in {"await", "token_urlsafe"} => lock # t
        /\ threads[t].request = "callback" =>
              /\ lock = t <=> InSection(t)
              /\ lock = t => threads[t].op \in {"get_state", "create_proxy_code"}

\* One /callback awaits the token exchange while another thread is inside a
\* critical section of the store.
C30_Witness ==
    \E t, u \in Threads :
        /\ threads[t].request = "callback" /\ threads[t].pc = "await"
        /\ threads[t].found
        /\ lock = u
        /\ InSection(u)


(***************************************************************************)
(* C31  Consumption after PKCE verification.  A /token request whose       *)
(* verifier does not match the challenge of a live proxy code leaves the   *)
(* code in the store, and a request with the matching verifier made        *)
(* afterwards, within the TTL, is still answered 200.                      *)
(***************************************************************************)
C31_ConsumeAfterVerification ==
    \A c \in DOMAIN codes, v \in Verifiers \ {""} :
        (LiveCode(c) /\ Redeemable(codes, c) /\ S256(v) # codes[c].code_challenge) =>
            LET out == token(codes, now, [TokenBase EXCEPT !.code = c, !.code_verifier = v])
            IN  /\ c \in DOMAIN out.codes
                /\ Redeemable(out.codes, c)


(***************************************************************************)
(* C32  Lazy sweep reach.  The four store operations, applied in any       *)
(* reachable state with any arguments: what each leaves in the two maps.   *)
(***************************************************************************)
StaleStates(st) == {k \in DOMAIN st : now - st[k].created_at > state_ttl}

StaleCodes(cs) == {c \in DOMAIN cs : now - cs[c].created_at > code_ttl}

\* The maps <<states, codes>> left by each store operation, for every argument.
AfterStoreState ==
    {<<store_state(states, now, k, ch, "S256", "https://c/cb", "claudeai"), codes>> :
        k \in StateKeys \ {""}, ch \in Challenges \ {<<>>}}

AfterGetState == {<<get_state(states, now, k).states, codes>> : k \in StateKeys}

AfterCreateProxyCode ==
    {<<states, create_proxy_code(codes, now, nextCode, a, ch)>> :
        a \in AccessTokens, ch \in Challenges \ {<<>>}}

AfterExchangeCode ==
    {<<states, exchange_code(codes, now, c, v).codes>> :
        c \in ProxyCodes, v \in Verifiers}

\* C32 as stated: after any store operation returns, neither the state map nor the
\* code map contains an entry older than its TTL.
C32_LazySweepReach ==
    \A after \in AfterStoreState \cup AfterGetState
                    \cup AfterCreateProxyCode \cup AfterExchangeCode :
        StaleStates(after[1]) = {} /\ StaleCodes(after[2]) = {}

\* C32 as the code has it: store_state and get_state leave no state older than its TTL
\* and do not touch the code map; create_proxy_code and exchange_code leave no code
\* older than its TTL and do not touch the state map.  An expired entry stays until
\* the next operation on its own map.
C32_LazySweepOwnMap ==
    /\ \A after \in AfterStoreState \cup AfterGetState :
          StaleStates(after[1]) = {} /\ after[2] = codes
    /\ \A after \in AfterCreateProxyCode \cup AfterExchangeCode :
          StaleCodes(after[2]) = {} /\ after[1] = states

\* A state has just been stored, by an operation that swept the state map, while a
\* code older than its TTL is still in the code map.
C32_Witness ==
    /\ StaleCodes(codes) # {}
    /\ \E k \in DOMAIN states : states[k].created_at = now
    /\ \E c \in DOMAIN codes : codes[c].created_at < now


(***************************************************************************)
(* C33  One live entry per state key.  A state key maps to one OAuthState  *)
(* at most.  An /authorize that is accepted stores its own challenge,      *)
(* redirect_uri and creation time under its state key, whether or not the  *)
(* key already has a live entry, and leaves every other live entry as it   *)
(* is; the /callback that follows redirects to that request's redirect_uri *)
(* and binds the minted code to that request's code_challenge.             *)
(***************************************************************************)
C33_OneLiveEntryPerState ==
    /\ DOMAIN states \subseteq StateKeys \ {""}
    /\ \A r \in AuthorizeRequests :
          LET out == authorize(states, now, r) IN
          out.stored =>
              /\ out.states[r.state].code_challenge = r.code_challenge
              /\ out.states[r.state].redirect_uri = r.redirect_uri
              /\ out.states[r.state].created_at = now
              /\ DOMAIN out.states = {k \in DOMAIN states : LiveState(k)} \cup {r.state}
              /\ \A k \in DOMAIN out.states \ {r.state} : out.states[k] = states[k]
              /\ \A outcome \in IdpOutcomes :
                    (Present(client_secret) /\ outcome.kind = "ok") =>
                        LET cb == callback(out.states, codes, now, client_secret, nextCode,
                                           [CallbackBase EXCEPT !.state = r.state], outcome)
                        IN  /\ cb.resp.status = 302
                            /\ cb.resp.location.url = r.redirect_uri
                            /\ cb.codes[nextCode].code_challenge = r.code_challenge
                            /\ r.state \notin DOMAIN cb.states

\* A state key has a live entry, and an /authorize naming the same key with another
\* challenge and another redirect_uri is accepted.
C33_Witness ==
    \E r \in AuthorizeRequests :
        /\ LiveState(r.state)
        /\ states[r.state].created_at < now
        /\ r.code_challenge # states[r.state].code_challenge
        /\ r.redirect_uri # states[r.state].redirect_uri
        /\ Present(client_secret)
        /\ authorize(states, now, r).stored


(***************************************************************************)
(* C34  Flow ordering and binding.  In every reachable state each proxy    *)
(* code in the store was minted by a /callback that consumed an OAuthState *)
(* stored by an earlier /authorize carrying the configured client_id, and  *)
(* the code's code_challenge is that OAuthState's; every stored state was  *)
(* stored by such an /authorize; and every code /token has answered 200    *)
(* for came from such a /callback and was redeemed with a verifier whose   *)
(* hash is the challenge of that /authorize.                               *)
(***************************************************************************)
FromAuthorize(o) ==
    [state |-> o.state, code_challenge |-> o.code_challenge] \in authorized

C34_FlowOrderingAndBinding ==
    /\ \A k \in DOMAIN states :
          [state |-> k, code_challenge |-> states[k].code_challenge] \in authorized
    /\ \A c \in DOMAIN codes :
          /\ c \in DOMAIN origin
          /\ FromAuthorize(origin[c])
          /\ codes[c].code_challenge = origin[c].code_challenge
    /\ \A c \in redeemed :
          /\ c \in DOMAIN origin
          /\ FromAuthorize(origin[c])
          /\ pkce_challenge(origin[c].verifier) = origin[c].code_challenge
    /\ DOMAIN origin = 1 .. (nextCode - 1)

\* /token has answered 200 for a code of an attempt whose /authorize asked for the
\* challenge of "v2", after another /authorize had stored another challenge.
C34_Witness ==
    \E c \in redeemed :
        /\ origin[c].state = "s1"
        /\ origin[c].code_challenge = pkce_challenge("v2")
        /\ origin[c].verifier = "v2"
        /\ Cardinality(authorized) = 2

(***************************************************************************)
(* C35: what the three endpoints disclose                                  *)
(***************************************************************************)
\* Every text of a response outside the access_token field of its body.
ResponseTexts(resp) ==
    {resp.error, resp.error_description, resp.token_type, resp.location.url,
     resp.location.client_id, resp.location.redirect_uri, resp.location.scope,
     resp.location.state}
        \cup {resp.detail[i] : i \in DOMAIN resp.detail}

\* The upstream access tokens the proxy holds.
UpstreamTokens == {codes[c].access_token : c \in DOMAIN codes}

Discloses(resp, tokens) ==
    \/ Present(client_secret) /\ client_secret \in ResponseTexts(resp) \cup {resp.access_token}
    \/ ResponseTexts(resp) \cap tokens # {}

\* C35: no response of /authorize, /callback or /token carries the proxy's client
\* secret in any of its fields; an upstream access token (one held in the code store,
\* or the one the provider has just issued to this callback) appears in no redirect
\* URL and in no error response, and the only response with an access_token is the
\* 200 of a /token whose code is in the store and whose verifier hashes to that
\* code's challenge, the token being the one stored with the code.
C35_NoCredentialLeak ==
    /\ \A r \in AuthorizeRequests :
          LET resp == authorize(states, now, r).resp
          IN  ~Discloses(resp, UpstreamTokens) /\ resp.access_token = ""
    /\ \A r \in CallbackRequests, outcome \in IdpOutcomes :
          LET resp == callback(states, codes, now, client_secret, nextCode, r, outcome).resp
          IN  /\ ~Discloses(resp, UpstreamTokens \cup ({outcome.access_token} \ {""}))
              /\ resp.access_token = ""
    /\ \A r \in TokenRequests :
          LET resp == token(codes, now, r).resp
          IN  /\ ~Discloses(resp, UpstreamTokens)
              /\ resp.access_token # "" =>
                    /\ resp.status = 200
                    /\ r.code \in DOMAIN codes
                    /\ pkce_challenge(r.code_verifier) = codes[r.code].code_challenge
                    /\ resp.access_token = codes[r.code].access_token

\* C35 witness: a secret is configured, a code holding an upstream token is in the
\* store and a state is live; the /token with the matching verifier answers 200 with
\* that token, the one with another verifier answers an error, a callback the provider
\* refuses answers 500 quoting the provider's text, and one it accepts redirects.
C35_Witness ==
    /\ Present(client_secret)
    /\ \E c \in DOMAIN codes, v, w \in Verifiers :
          /\ token(codes, now, [TokenBase EXCEPT !.code = c, !.code_verifier = v])
                .resp.access_token = codes[c].access_token
          /\ token(codes, now, [TokenBase EXCEPT !.code = c, !.code_verifier = w])
                .resp.status = 400
    /\ \E s \in DOMAIN states, text \in IdpErrorTexts :
          /\ callback(states, codes, now, client_secret, nextCode,
                      [CallbackBase EXCEPT !.state = s],
                      [kind |-> "http_error", access_token |-> "", text |-> text])
                .resp.detail = <<"Azure AD token exchange failed: ", text>>
          /\ callback(states, codes, now, client_secret, nextCode,
                      [CallbackBase EXCEPT !.state = s],
                      [kind |-> "ok", access_token |-> "at1", text |-> ""])
                .resp.status = 302

(***************************************************************************)
(* C37: the signing key validate_token takes from the key set              *)
(***************************************************************************)
UnknownSigningKey == "Token validation failed: Unable to find matching signing key in JWKS"

\* The messages validate_token gives for what jwt.decode raises.
DecodeMessages ==
    {DecodeError(JwtOf(raw), key) : raw \in BearerTokens, key \in {"k1", "k2"}} \ {""}

\* C37: for every well-formed token and every answer of the JWKS endpoint that leaves
\* validate_token with a key set: when the header's kid is the identifier of a key of
\* the set, the result is that of jwt.decode with that key; when the header has no
\* kid and the set is not empty, it is that of jwt.decode with the first key of the
\* set; otherwise (no identifier matches, or the set is empty) validation fails with
\* the unknown-signing-key message, which is none of jwt.decode's, and no user.
C37_SigningKeySelection ==
    \A raw \in BearerTokens, outcome \in FetchOutcomes :
        LET jwt == JwtOf(raw)
            got == _get_jwks(jwks_cache, jwks_cache_time, now, outcome)
            v == validate_token(raw, jwks_cache, jwks_cache_time, now, outcome)
            ids == {got.keys[i] : i \in DOMAIN got.keys}
        IN  (~jwt.malformed /\ got.ok) =>
                IF jwt.kid # "" /\ jwt.kid \in ids
                THEN /\ v.error = DecodeError(jwt, jwt.kid)
                     /\ v.error = "" => v.user.token = raw
                ELSE IF jwt.kid = "" /\ got.keys # <<>>
                THEN /\ v.error = DecodeError(jwt, got.keys[1])
                     /\ v.error = "" => v.user.token = raw
                ELSE /\ v.error = UnknownSigningKey
                     /\ v.error \notin DecodeMessages
                     /\ v.user = NoUser

\* C37 witness: the middleware has just refused a token with the unknown-signing-key
\* message; with the key set now cached a token whose kid no key carries is refused
\* that way again, and either the set is empty and a token without kid is refused
\* too, or the set's first key is not the signer of the token without kid, which is
\* refused for its signature while the token naming its key is accepted.
C37_Witness ==
    /\ mw.validated /\ mw.status = 401 /\ mw.error = UnknownSigningKey
    /\ jwks_cache.cached /\ now - jwks_cache_time < jwks_cache_ttl
    /\ \A outcome \in FetchOutcomes :
          /\ validate_token("Tk9", jwks_cache, jwks_cache_time, now, outcome).error
                = UnknownSigningKey
          /\ \/ /\ jwks_cache.keys = <<>>
                /\ validate_token("Tnokid", jwks_cache, jwks_cache_time, now, outcome).error
                      = UnknownSigningKey
             \/ /\ jwks_cache.keys = <<"k2">>
                /\ validate_token("Tnokid", jwks_cache, jwks_cache_time, now, outcome).error
                      = "Invalid token signature."
                /\ validate_token("T2", jwks_cache, jwks_cache_time, now, outcome).error = ""

(***************************************************************************)
(* C38: the cache time after a failed refresh                              *)
(***************************************************************************)
\* Delays shorter than jwks_cache_ttl after the failed refresh.
WithinTtl == {0, 1, jwks_cache_ttl - 1}

\* C38: when the cached key set is no longer fresh and the refresh fetch fails,
\* _get_jwks serves the cached set and leaves the cache with that set and with the
\* time of this attempt; from then and for less than jwks_cache_ttl, whatever the
\* endpoint would answer (other keys included), _get_jwks attempts no fetch and
\* serves the same stale set; once jwks_cache_ttl has elapsed it fetches again.
C38_StaleKeysRestamped ==
    \A failure \in {o \in FetchOutcomes : ~o.ok} :
        (jwks_cache.cached /\ now - jwks_cache_time >= jwks_cache_ttl) =>
            LET g == _get_jwks(jwks_cache, jwks_cache_time, now, failure)
            IN  /\ g.ok /\ g.fetched
                /\ g.keys = jwks_cache.keys
                /\ g.cache = jwks_cache
                /\ g.cache_time = now
                /\ \A d \in WithinTtl, later \in FetchOutcomes :
                      LET h == _get_jwks(g.cache, g.cache_time, now + d, later)
                      IN  ~h.fetched /\ h.keys = jwks_cache.keys /\ h.cache_time = now
                /\ \A later \in FetchOutcomes :
                      _get_jwks(g.cache, g.cache_time, now + jwks_cache_ttl, later).fetched

\* C38 witness: the cache was stamped after the last key set the endpoint delivered,
\* so a failed refresh re-stamped it; the middleware has just validated a token with
\* no fetch attempted, although the keys it used were delivered at least
\* jwks_cache_ttl ago and the endpoint would now answer with another set.
C38_Witness ==
    /\ jwks_fetched.at >= 0
    /\ jwks_cache.cached /\ jwks_cache.keys = jwks_fetched.keys
    /\ jwks_cache_time > jwks_fetched.at
    /\ now - jwks_fetched.at >= jwks_cache_ttl
    /\ mw.validated /\ ~mw.fetched
    /\ \E other \in FetchOutcomes :
          /\ other.ok /\ other.keys # jwks_cache.keys
          /\ ~_get_jwks(jwks_cache, jwks_cache_time, now, other).fetched

(***************************************************************************)
(* C36: tokens of concurrent inbound requests                              *)
(***************************************************************************)
\* C36: with inbound requests in progress at the same time, the upstream request sent
\* for an inbound request carries either no Authorization header or the bearer token
\* of that same inbound request, never a token that only another inbound request
\* brought; and the SSEBearerAuth instance has no attribute at any time, so it holds
\* no token from one request to the next.
C36_NoCrossRequestSharing ==
    /\ sse_bearer_auth = NoAttributes
    /\ \A i \in Inbounds :
          inbound[i].outbound.issued =>
              \/ inbound[i].outbound.authorization = NoAuthorization
              \/ inbound[i].outbound.authorization
                    = Bearer(CarriedToken(inbound[i].scope.headers))
    /\ \A i \in Inbounds :
          inbound[i].user # NoUser =>
              inbound[i].user.token = CarriedToken(inbound[i].scope.headers)

\* C36 witness: two inbound requests with different tokens are in progress; the
\* authenticator has set the header of the first one's upstream request from that
\* request's user context, and the second one's upstream request, sent with no user
\* context, has left without a header.
C36_Witness ==
    \E i, j \in Inbounds :
        /\ inbound[i].phase = "handling" /\ inbound[j].phase = "handling"
        /\ inbound[i].user.token = "T1" /\ inbound[j].user.token = "T2"
        /\ inbound[i].outbound.issued /\ inbound[j].outbound.issued
        /\ inbound[i].request.authorization = NoAuthorization
        /\ inbound[i].request.user_context.kind = "UserContext"
        /\ inbound[i].outbound.authorization = Bearer("T1")
        /\ inbound[j].request = NoRequest
        /\ inbound[j].outbound.authorization = NoAuthorization

(***************************************************************************)
(* C39: what passes the stack unauthenticated                              *)
(***************************************************************************)
\* C39: the auth middleware calls the application, validating no token and attaching
\* no user, for every scope whose type is not http and for every http scope with path
\* "/" whatever the method and the headers; the health responder answers exactly the
\* http GET requests to "/"; so with the health responder in front of the auth
\* middleware every http request to "/" with a method other than GET reaches the
\* application unauthenticated. Through the whole stack the same holds for every such
\* method except OPTIONS, which the CORS layer in front of both answers itself.
C39_UnauthenticatedPassThrough ==
    \A scope \in StackScopes, outcome \in FetchOutcomes :
        LET a == SSEAuthMiddleware(scope, jwks_cache, jwks_cache_time, now, outcome)
            h == HealthCheckMiddleware(scope, jwks_cache, jwks_cache_time, now, outcome)
            c == CORSMiddleware(scope, jwks_cache, jwks_cache_time, now, outcome)
        IN  /\ (scope.type # "http" \/ scope.path = "/") =>
                  /\ a.app_called /\ ~a.validated /\ ~a.fetched
                  /\ a.user = NoUser /\ a.status = 0
            /\ h.by = "health" <=>
                  (scope.type = "http" /\ scope.method = "GET" /\ scope.path = "/")
            /\ (scope.type = "http" /\ scope.path = "/" /\ scope.method # "GET") =>
                  /\ h.by = "app" /\ ~h.validated /\ h.user = NoUser
                  /\ IF scope.method = "OPTIONS" THEN c.by = "cors"
                     ELSE c.by = "app" /\ ~c.validated /\ c.user = NoUser
            /\ scope.type # "http" =>
                  c.by = "app" /\ ~c.validated /\ c.user = NoUser

\* C39 witness: a POST to "/" that carried a malformed bearer token went through the
\* whole stack and reached the application with no validation, while the same request
\* sent as GET is answered by the health responder and, sent to /mcp, is refused.
C39_Witness ==
    /\ stack.scope.type = "http" /\ stack.scope.method = "POST"
    /\ stack.scope.path = "/"
    /\ CarriedToken(stack.scope.headers) = "Tbad"
    /\ stack.by = "app" /\ ~stack.validated /\ stack.user = NoUser
    /\ \A outcome \in FetchOutcomes :
          /\ CORSMiddleware([stack.scope EXCEPT !.method = "GET"], jwks_cache,
                            jwks_cache_time, now, outcome).by = "health"
          /\ CORSMiddleware([stack.scope EXCEPT !.path = "/mcp"], jwks_cache,
                            jwks_cache_time, now, outcome).status = 401

====
